---- MODULE Spec2Model ----
(***************************************************************************)
(* Verse script compiler: the facade (VerseScriptCompiler.compile), the    *)
(* type checker (TypeChecker) and the emitter (CodeGenerator).             *)
(*                                                                         *)
(* Semantic types, AST nodes and type annotations are records tagged the   *)
(* way the TypeScript objects are (kind / type).  A Map<string, Type> is a *)
(* function whose domain is the set of keys; a Record<string, Type> whose  *)
(* insertion order is observable (typeToString) is a sequence of           *)
(* [key, type] entries.                                                    *)
(***************************************************************************)
EXTENDS Integers, Sequences, FiniteSets, TLC

VARIABLES
  symbolTable,            \* TypeChecker.symbolTable
  customTypes,            \* TypeChecker.customTypes
  currentFunctionIsAsync, \* TypeChecker.currentFunctionIsAsync
  allowTopLevelAwait,     \* TypeChecker.allowTopLevelAwait
  savedAsync,             \* check(): const savedAsync
  pc,                     \* position of the running operation
  body,                   \* ast.body: the statements check() has consumed
  outcome,                \* what inferReturnType returned or threw
  before,                 \* checker state before the last statement
  result,                 \* the CompileResult of the last compile call
  source,                 \* the source of the last compile call
  calls,                  \* number of compile calls made on the instance
  seen,                   \* source -> first result since the last registration
  tyS, tyT, assignable,   \* isAssignable(tyS, tyT) = assignable
  scopes,                 \* CodeGenerator.scopes
  asyncContextStack,      \* CodeGenerator.asyncContextStack
  program,                \* generate(ast): the program being emitted
  emitted,                \* generate(): the lines of the statements mapped so far
  output,                 \* what generate returned
  input,                  \* Lexer.source, a sequence of characters
  pos,                    \* Lexer.pos
  line,                   \* Lexer.line
  column,                 \* Lexer.column
  tokenStart,             \* nextToken(): const start, of its last call
  tokens,                 \* tokenize(): const tokens
  lexError,               \* the message of the Error tokenize threw, or ""
  parserTokens,           \* Parser.tokens
  parserPos,              \* Parser.pos
  parsedBody,             \* parse(): const body
  parseError              \* the message of the Error parse threw, or ""

vars == <<symbolTable, customTypes, currentFunctionIsAsync, allowTopLevelAwait,
          savedAsync, pc, body, outcome, before, result, source, calls, seen,
          tyS, tyT, assignable, scopes, asyncContextStack, program, emitted, output,
          input, pos, line, column, tokenStart, tokens, lexError,
          parserTokens, parserPos, parsedBody, parseError>>

----------------------------------------------------------------------------
(* Bounds *)

MaxTypeDepth == 2
MaxStmts == 2
MaxCalls == 3

----------------------------------------------------------------------------
(* Semantic types: interface Type *)

Prim(n) == [kind |-> "primitive", name |-> n]
Arr(t) == [kind |-> "array", elementType |-> t]
Obj(n, props) == [kind |-> "object", name |-> n, properties |-> props]
Fun(params, ret, isAsync) ==
  [kind |-> "function", parameters |-> params, returnType |-> ret, async |-> isAsync]
Union(ts) == [kind |-> "union", types |-> ts]
Promise(t) == [kind |-> "promise", resolveType |-> t]
Unknown == [kind |-> "unknown"]

TNumber == Prim("number")
TString == Prim("string")
TBoolean == Prim("boolean")
TNull == Prim("null")

BUILTIN_TYPES(n) ==
  CASE n = "number" -> TNumber
    [] n = "string" -> TString
    [] n = "boolean" -> TBoolean
    [] n = "null" -> TNull
    [] OTHER -> Unknown

Prop(k, t) == [key |-> k, type |-> t]

HasProp(props, k) == \E i \in DOMAIN props : props[i].key = k

PropOf(props, k) == props[CHOOSE i \in DOMAIN props : props[i].key = k].type

\* properties[k] = t on a Record: a new key is appended, an old key keeps its place
PropSet(props, k, t) ==
  IF HasProp(props, k)
  THEN [i \in DOMAIN props |-> IF props[i].key = k THEN Prop(k, t) ELSE props[i]]
  ELSE Append(props, Prop(k, t))

\* Map.set
MapSet(m, k, v) == [n \in (DOMAIN m) \cup {k} |-> IF n = k THEN v ELSE m[n]]

EmptyMap == [n \in {} |-> Unknown]

RECURSIVE Join(_, _)
Join(strs, sep) ==
  IF Len(strs) = 0 THEN ""
  ELSE IF Len(strs) = 1 THEN strs[1]
  ELSE strs[1] \o sep \o Join(Tail(strs), sep)

RECURSIVE typeToString(_)
typeToString(type) ==
  CASE type.kind = "primitive" -> IF type.name # "" THEN type.name ELSE "unknown"
    [] type.kind = "array" -> typeToString(type.elementType) \o "[]"
    [] type.kind = "promise" -> "Promise<" \o typeToString(type.resolveType) \o ">"
    [] type.kind = "object" ->
         IF type.name # "" THEN type.name
         ELSE "{ " \o Join([i \in DOMAIN type.properties |->
                              type.properties[i].key \o ": "
                                \o typeToString(type.properties[i].type)], ", ")
                   \o " }"
    [] type.kind = "function" ->
         (IF type.async THEN "async " ELSE "")
           \o "(" \o Join([i \in DOMAIN type.parameters |->
                             typeToString(type.parameters[i])], ", ")
           \o ") => " \o typeToString(type.returnType)
    [] type.kind = "union" ->
         Join([i \in DOMAIN type.types |-> typeToString(type.types[i])], " | ")
    [] OTHER -> "unknown"

RECURSIVE typesEqual(_, _)
typesEqual(a, b) ==
  IF a.kind # b.kind THEN FALSE
  ELSE IF a.kind = "primitive" THEN a.name = b.name
  ELSE IF a.kind = "array" THEN typesEqual(a.elementType, b.elementType)
  ELSE IF a.kind = "promise" THEN typesEqual(a.resolveType, b.resolveType)
  ELSE FALSE

RECURSIVE isAssignable(_, _)

\* mutant: one assignable member of the source union is enough
everyMember_Some(src, target) ==
  \E i \in DOMAIN src.types : isAssignable(src.types[i], target)

\* source.types.every(s => this.isAssignable(s, target))
everyMember(src, target) ==
  \A i \in DOMAIN src.types : isAssignable(src.types[i], target)

\* mutant: only an unknown source is assignable to anything
eitherUnknown_SourceOnly(src, target) == src.kind = "unknown"

\* source.kind === 'unknown' || target.kind === 'unknown'
eitherUnknown(src, target) == src.kind = "unknown" \/ target.kind = "unknown"

isAssignable(src, target) ==
  IF src.kind = "union" THEN everyMember(src, target)
  ELSE IF typesEqual(src, target) THEN TRUE
  ELSE IF eitherUnknown(src, target) THEN TRUE
  ELSE IF target.kind = "union"
  THEN \E i \in DOMAIN target.types : isAssignable(src, target.types[i])
  ELSE IF src.kind = "array" /\ target.kind = "array"
  THEN isAssignable(src.elementType, target.elementType)
  ELSE IF src.kind = "promise" /\ target.kind = "promise"
  THEN isAssignable(src.resolveType, target.resolveType)
  ELSE IF target.kind = "object" /\ src.kind = "object"
  THEN \A i \in DOMAIN target.properties :
         /\ HasProp(src.properties, target.properties[i].key)
         /\ isAssignable(PropOf(src.properties, target.properties[i].key),
                         target.properties[i].type)
  ELSE FALSE

----------------------------------------------------------------------------
(* AST nodes (ast.ts) as the parser builds them *)

NoNode == [type |-> "None"]

Lit(vt, v) == [type |-> "Literal", valueType |-> vt, value |-> v]
Id(n) == [type |-> "Identifier", name |-> n]
Binary(op, l, r) == [type |-> "BinaryExpression", operator |-> op, left |-> l, right |-> r]
Unary(op, e) == [type |-> "UnaryExpression", operator |-> op, operand |-> e]
Call(c, args) == [type |-> "CallExpression", callee |-> c, arguments |-> args]
Member(o, p, c) == [type |-> "MemberExpression", object |-> o, property |-> p, computed |-> c]
ArrayLit(es) == [type |-> "ArrayExpression", elements |-> es]
ObjectLit(ps) == [type |-> "ObjectExpression", properties |-> ps]
Field(k, v) == [key |-> k, value |-> v]
Cond(t, c, a) == [type |-> "ConditionalExpression", test |-> t, consequent |-> c, alternate |-> a]
Arrow(ps, b, isAsync) == [type |-> "ArrowFunction", params |-> ps, body |-> b, async |-> isAsync]
Assign(t, v) == [type |-> "AssignmentExpression", target |-> t, value |-> v]
Await(e) == [type |-> "AwaitExpression", argument |-> e]

TypeDecl(n, ann) == [type |-> "TypeDeclaration", name |-> n, typeAnnotation |-> ann]
InterfaceDecl(n, ps) == [type |-> "InterfaceDeclaration", name |-> n, properties |-> ps]
VarDecl(n, ann, v, c) ==
  [type |-> "VariableDeclaration", identifier |-> n, typeAnnotation |-> ann,
   value |-> v, constant |-> c]
Param(n, ann) == [name |-> n, typeAnnotation |-> ann]
FuncDecl(n, ps, ann, b, isAsync) ==
  [type |-> "FunctionDeclaration", name |-> n, params |-> ps,
   returnTypeAnnotation |-> ann, body |-> b, async |-> isAsync]
Return(v) == [type |-> "ReturnStatement", value |-> v]
If(c, t, e) == [type |-> "IfStatement", condition |-> c, consequent |-> t, alternate |-> e]
For(v, it, b, isAwait) ==
  [type |-> "ForStatement", variable |-> v, iterable |-> it, body |-> b, async |-> isAwait]
ExprStmt(e) == [type |-> "ExpressionStatement", expression |-> e]

\* IfStatementNode.alternate is null when there is no else block
NoAlternate == <<NoNode>>

(* Type annotations *)
NoAnn == [type |-> "None"]
PrimitiveType(n) == [type |-> "PrimitiveType", name |-> n]
ArrayType(t) == [type |-> "ArrayType", elementType |-> t]
ObjectType(ps) == [type |-> "ObjectType", properties |-> ps]
UnionType(ts) == [type |-> "UnionType", types |-> ts]
TypeReference(n) == [type |-> "TypeReference", name |-> n]
PromiseType(t) == [type |-> "PromiseType", resolveType |-> t]
AnnField(k, t) == [key |-> k, valueType |-> t]
IfaceField(k, t) == [key |-> k, typeAnnotation |-> t]

----------------------------------------------------------------------------
(* TypeChecker.  A checker state is the record of the instance fields plus *)
(* the exception in flight, if any: a throw leaves the fields as they are  *)
(* at the throw and skips everything up to the enclosing catch/finally.    *)

CheckerState(sym, custom, isAsync) ==
  [sym |-> sym, custom |-> custom, async |-> isAsync, thrown |-> FALSE, error |-> ""]

Ret(st, ty) == [st |-> st, ty |-> ty]
Throw(st, msg) == [st |-> [st EXCEPT !.thrown = TRUE, !.error = msg], ty |-> Unknown]

AwaitError == "await can only be used in async functions"
ForAwaitError == "for await...of requires an async iterable (Promise<T[]>)"

RECURSIVE annotationToType(_, _)
RECURSIVE annotationProps(_, _, _)
annotationProps(custom, fields, acc) ==
  IF Len(fields) = 0 THEN acc
  ELSE annotationProps(custom, Tail(fields),
         PropSet(acc, fields[1].key, annotationToType(custom, fields[1].valueType)))

annotationToType(custom, annotation) ==
  CASE annotation.type = "PrimitiveType" -> BUILTIN_TYPES(annotation.name)
    [] annotation.type = "ArrayType" ->
         Arr(annotationToType(custom, annotation.elementType))
    [] annotation.type = "ObjectType" ->
         Obj("", annotationProps(custom, annotation.properties, <<>>))
    [] annotation.type = "UnionType" ->
         Union([i \in DOMAIN annotation.types |->
                  annotationToType(custom, annotation.types[i])])
    [] annotation.type = "TypeReference" ->
         IF annotation.name \in DOMAIN custom THEN custom[annotation.name] ELSE Unknown
    [] annotation.type = "PromiseType" ->
         Promise(annotationToType(custom, annotation.resolveType))
    [] OTHER -> Unknown

inferLiteral(node) ==
  CASE node.valueType = "number" -> TNumber
    [] node.valueType = "string" -> TString
    [] node.valueType = "boolean" -> TBoolean
    [] node.valueType = "null" -> TNull
    [] OTHER -> Unknown

inferIdentifier(st, node) ==
  LET inSym == node.name \in DOMAIN st.sym
      useCustom == ~inSym \/ st.sym[node.name].kind = "unknown"
  IN IF ~useCustom THEN st.sym[node.name]
     ELSE IF node.name \in DOMAIN st.custom THEN st.custom[node.name]
     ELSE Unknown

\* /^-?\d+$/ on the property strings the model uses
NumericStrings == {"0", "1", "2", "-1"}

memberType(objectType, node) ==
  IF ~node.computed
  THEN IF objectType.kind = "object"
       THEN IF HasProp(objectType.properties, node.property)
            THEN PropOf(objectType.properties, node.property) ELSE Unknown
       ELSE IF objectType.kind = "array" /\ node.property = "length" THEN TNumber
       ELSE Unknown
  ELSE IF node.property \in NumericStrings
       THEN IF objectType.kind = "array" THEN objectType.elementType ELSE Unknown
       ELSE IF objectType.kind = "object"
            THEN IF HasProp(objectType.properties, node.property)
                 THEN PropOf(objectType.properties, node.property) ELSE Unknown
            ELSE IF objectType.kind = "array" /\ node.property = "length" THEN TNumber
            ELSE Unknown

binaryType(operator, left, right) ==
  IF operator \in {"+", "-", "*", "/", "%"}
  THEN IF operator = "+" /\ (left = TString \/ right = TString) THEN TString ELSE TNumber
  ELSE IF operator \in {"==", "!=", "<", "<=", ">", ">=", "&&", "||"} THEN TBoolean
  ELSE Unknown

arrayMethodType(method, objectType, calleeType) ==
  IF method # "" /\ objectType.kind = "array"
       /\ method \in {"filter", "map", "slice", "concat"} THEN objectType
  ELSE IF method # "" /\ objectType.kind = "array" /\ method \in {"find", "at"}
  THEN objectType.elementType
  ELSE IF method # "" /\ objectType.kind = "array"
            /\ method \in {"length", "findIndex", "indexOf"} THEN TNumber
  ELSE IF method # "" /\ objectType.kind = "array"
            /\ method \in {"some", "every", "includes"} THEN TBoolean
  ELSE IF calleeType.kind = "function" THEN calleeType.returnType
  ELSE Unknown

RECURSIVE inferExpression(_, _)
RECURSIVE inferObjectProps(_, _, _)

inferObjectProps(st, fields, acc) ==
  IF Len(fields) = 0 THEN Ret(st, Obj("", acc))
  ELSE LET v == inferExpression(st, fields[1].value)
       IN IF v.st.thrown THEN v
          ELSE inferObjectProps(v.st, Tail(fields), PropSet(acc, fields[1].key, v.ty))

inferAwaitExpression(st, node) ==
  IF ~st.async THEN Throw(st, AwaitError)
  ELSE LET a == inferExpression(st, node.argument)
       IN IF a.st.thrown THEN a
          ELSE IF a.ty.kind = "promise" THEN Ret(a.st, a.ty.resolveType)
          ELSE a

arrowParams(sym, params) ==
  [n \in (DOMAIN sym) \cup {params[i] : i \in DOMAIN params} |->
     IF \E i \in DOMAIN params : params[i] = n THEN Unknown ELSE sym[n]]

inferArrowFunction(st, node) ==
  LET inner == [st EXCEPT !.async = node.async, !.sym = arrowParams(st.sym, node.params)]
      b == inferExpression(inner, node.body)
      returnType == IF node.async /\ b.ty.kind # "promise" THEN Promise(b.ty) ELSE b.ty
  IN IF b.st.thrown THEN b
     ELSE Ret([b.st EXCEPT !.sym = st.sym, !.async = st.async],
              Fun([i \in DOMAIN node.params |-> Unknown], returnType, node.async))

inferCallExpression(st, node) ==
  LET c == inferExpression(st, node.callee)
  IN IF c.st.thrown THEN c
     ELSE IF node.callee.type = "MemberExpression"
     THEN LET o == inferExpression(c.st, node.callee.object)
          IN IF o.st.thrown THEN o
             ELSE Ret(o.st, arrayMethodType(node.callee.property, o.ty, c.ty))
     ELSE Ret(c.st, IF c.ty.kind = "function" THEN c.ty.returnType ELSE Unknown)

inferConditionalExpression(st, node) ==
  LET c == inferExpression(st, node.consequent)
  IN IF c.st.thrown THEN c
     ELSE LET a == inferExpression(c.st, node.alternate)
          IN IF a.st.thrown THEN a
             ELSE IF typesEqual(c.ty, a.ty) THEN Ret(a.st, c.ty)
             ELSE Ret(a.st, Union(<<c.ty, a.ty>>))

inferExpression(st, node) ==
  CASE node.type = "Literal" -> Ret(st, inferLiteral(node))
    [] node.type = "Identifier" -> Ret(st, inferIdentifier(st, node))
    [] node.type = "BinaryExpression" ->
         LET l == inferExpression(st, node.left)
         IN IF l.st.thrown THEN l
            ELSE LET r == inferExpression(l.st, node.right)
                 IN IF r.st.thrown THEN r
                    ELSE Ret(r.st, binaryType(node.operator, l.ty, r.ty))
    [] node.type = "UnaryExpression" ->
         LET o == inferExpression(st, node.operand)
         IN IF o.st.thrown THEN o
            ELSE IF node.operator = "!" THEN Ret(o.st, TBoolean)
            ELSE IF node.operator = "-" THEN Ret(o.st, TNumber)
            ELSE o
    [] node.type = "CallExpression" -> inferCallExpression(st, node)
    [] node.type = "MemberExpression" ->
         LET o == inferExpression(st, node.object)
         IN IF o.st.thrown THEN o ELSE Ret(o.st, memberType(o.ty, node))
    [] node.type = "ArrayExpression" ->
         IF Len(node.elements) = 0 THEN Ret(st, Arr(Unknown))
         ELSE LET e == inferExpression(st, node.elements[1])
              IN IF e.st.thrown THEN e ELSE Ret(e.st, Arr(e.ty))
    [] node.type = "ObjectExpression" -> inferObjectProps(st, node.properties, <<>>)
    [] node.type = "ConditionalExpression" -> inferConditionalExpression(st, node)
    [] node.type = "ArrowFunction" -> inferArrowFunction(st, node)
    [] node.type = "AwaitExpression" -> inferAwaitExpression(st, node)
    [] node.type = "AssignmentExpression" ->
         LET v == inferExpression(st, node.value)
         IN IF v.st.thrown THEN v
            ELSE IF node.target.type = "Identifier"
            THEN Ret([v.st EXCEPT !.sym = MapSet(v.st.sym, node.target.name, v.ty)], v.ty)
            ELSE v
    [] OTHER -> Ret(st, Unknown)


RECURSIVE checkStatement(_, _)
RECURSIVE checkStatements(_, _, _)

\* the rest of the loop after the statement whose result is r
checkRemaining(r, stmts) ==
  IF r.st.thrown THEN r ELSE checkStatements(r.st, Tail(stmts), r.ty)

\* for (const stmt of stmts) lastType = this.checkStatement(stmt)
checkStatements(st, stmts, lastType) ==
  IF Len(stmts) = 0 THEN Ret(st, lastType)
  ELSE checkRemaining(checkStatement(st, stmts[1]), stmts)

checkTypeDeclaration(st, node) ==
  LET type == annotationToType(st.custom, node.typeAnnotation)
  IN Ret([st EXCEPT !.custom = MapSet(st.custom, node.name, type)], type)

RECURSIVE interfaceProps(_, _, _)
interfaceProps(custom, fields, acc) ==
  IF Len(fields) = 0 THEN acc
  ELSE interfaceProps(custom, Tail(fields),
         PropSet(acc, fields[1].key, annotationToType(custom, fields[1].typeAnnotation)))

checkInterfaceDeclaration(st, node) ==
  LET type == Obj(node.name, interfaceProps(st.custom, node.properties, <<>>))
  IN Ret([st EXCEPT !.custom = MapSet(st.custom, node.name, type)], type)

CannotAssign(valueType, declaredType) ==
  "Cannot assign " \o typeToString(valueType) \o " to " \o typeToString(declaredType)

\* mutant: the name is bound before the assignability check
declareVariable_BindFirst(node, v) ==
  LET declaredType == annotationToType(v.st.custom, node.typeAnnotation)
      bound == [v.st EXCEPT !.sym = MapSet(v.st.sym, node.identifier, declaredType)]
  IN IF v.st.thrown THEN v
     ELSE IF node.typeAnnotation # NoAnn
     THEN IF ~isAssignable(v.ty, declaredType)
          THEN Throw(bound, CannotAssign(v.ty, declaredType))
          ELSE Ret(bound, declaredType)
     ELSE Ret([v.st EXCEPT !.sym = MapSet(v.st.sym, node.identifier, v.ty)], v.ty)

\* checkVariableDeclaration after the value has been inferred, with result v
declareVariable(node, v) ==
  LET declaredType == annotationToType(v.st.custom, node.typeAnnotation)
  IN IF v.st.thrown THEN v
     ELSE IF node.typeAnnotation # NoAnn
     THEN IF ~isAssignable(v.ty, declaredType)
          THEN Throw(v.st, CannotAssign(v.ty, declaredType))
          ELSE Ret([v.st EXCEPT !.sym = MapSet(v.st.sym, node.identifier, declaredType)],
                   declaredType)
     ELSE Ret([v.st EXCEPT !.sym = MapSet(v.st.sym, node.identifier, v.ty)], v.ty)

checkVariableDeclaration(st, node) ==
  declareVariable(node, inferExpression(st, node.value))

paramType(custom, param) ==
  IF param.typeAnnotation # NoAnn THEN annotationToType(custom, param.typeAnnotation)
  ELSE Unknown

RECURSIVE bindParams(_, _, _)
bindParams(sym, custom, params) ==
  IF Len(params) = 0 THEN sym
  ELSE bindParams(MapSet(sym, params[1].name, paramType(custom, params[1])),
                  custom, Tail(params))

\* returnTypes.push(this.inferExpression(stmt.value)), r the inferred value
pushReturn(r, returnTypes) ==
  IF r.st.thrown THEN [st |-> r.st, types |-> returnTypes]
  ELSE [st |-> r.st, types |-> Append(returnTypes, r.ty)]

\* for (const stmt of node.body)
\*   if (stmt.type === 'ReturnStatement' && stmt.value) returnTypes.push(...)
RECURSIVE functionReturns(_, _, _)

functionReturnsRest(c, stmts) == functionReturns(c.st, Tail(stmts), c.types)

functionReturns(st, stmts, returnTypes) ==
  IF Len(stmts) = 0 \/ st.thrown THEN [st |-> st, types |-> returnTypes]
  ELSE IF stmts[1].type = "ReturnStatement" /\ stmts[1].value # NoNode
  THEN functionReturnsRest(pushReturn(inferExpression(st, stmts[1].value), returnTypes),
                           stmts)
  ELSE functionReturns(st, Tail(stmts), returnTypes)

\* returnTypes.length > 0 ? (length === 1 ? returnTypes[0] : union) : unknown
inferredReturnType(returnTypes) ==
  IF Len(returnTypes) > 0
  THEN IF Len(returnTypes) = 1 THEN returnTypes[1] ELSE Union(returnTypes)
  ELSE Unknown

\* mutant: an async function's type is wrapped even when it is a Promise
asyncWrap_Always(isAsync, inferred) ==
  IF isAsync THEN Promise(inferred) ELSE inferred

asyncWrap(isAsync, inferred) ==
  IF isAsync /\ inferred.kind # "promise" THEN Promise(inferred) ELSE inferred

ReturnsButDeclared(name, returnType, declaredReturnType) ==
  "Function " \o name \o " returns " \o typeToString(returnType)
    \o " but declared " \o typeToString(declaredReturnType)

\* mutant: the body is checked with the async flag of the enclosing context
functionScope_OuterAsync(st, node) ==
  [st EXCEPT !.sym = bindParams(st.sym, st.custom, node.params)]

\* the scope of a function body: the parameters bound, the node's async flag
functionScope(st, node) ==
  [st EXCEPT !.async = node.async, !.sym = bindParams(st.sym, st.custom, node.params)]

\* checkFunctionDeclaration after the returns of the body have been inferred (rs)
declareFunction(st, node, rs) ==
  LET paramTypes == [i \in DOMAIN node.params |-> paramType(st.custom, node.params[i])]
      returnType == asyncWrap(node.async, inferredReturnType(rs.types))
      declaredReturnType == annotationToType(rs.st.custom, node.returnTypeAnnotation)
      declared == node.returnTypeAnnotation # NoAnn
      funcType == Fun(paramTypes, IF declared THEN declaredReturnType ELSE returnType,
                      node.async)
  IN IF rs.st.thrown THEN Ret(rs.st, Unknown)
     ELSE IF declared /\ ~isAssignable(returnType, declaredReturnType)
     THEN Throw(rs.st, ReturnsButDeclared(node.name, returnType, declaredReturnType))
     ELSE Ret([rs.st EXCEPT !.sym = MapSet(st.sym, node.name, funcType),
                            !.async = st.async],
              funcType)

checkFunctionDeclaration(st, node) ==
  declareFunction(st, node, functionReturns(functionScope(st, node), node.body, <<>>))

\* the alternate branch, t the result of the consequent
checkAlternate(node, t) ==
  IF t.st.thrown \/ node.alternate = NoAlternate THEN t
  ELSE checkStatements(t.st, node.alternate, t.ty)

\* the branches, c the result of the condition
checkBranches(node, c) ==
  IF c.st.thrown THEN c
  ELSE checkAlternate(node, checkStatements(c.st, node.consequent, Unknown))

checkIfStatement(st, node) ==
  checkBranches(node, inferExpression(st, node.condition))

\* this.symbolTable = savedSymbols after the loop body, whose result is b
restoreLoopScope(st, b) ==
  IF b.st.thrown THEN b ELSE Ret([b.st EXCEPT !.sym = st.sym], b.ty)

\* checkForStatement after the iterable has been inferred, with result it
checkLoop(st, node, it) ==
  LET promiseOfArray == it.ty.kind = "promise" /\ it.ty.resolveType.kind = "array"
      itemType == IF node.async /\ promiseOfArray THEN it.ty.resolveType.elementType
                  ELSE IF it.ty.kind = "array" THEN it.ty.elementType
                  ELSE Unknown
  IN IF it.st.thrown THEN it
     ELSE IF node.async /\ promiseOfArray /\ ~it.st.async THEN Throw(it.st, AwaitError)
     ELSE IF node.async /\ ~promiseOfArray /\ it.ty.kind # "array"
     THEN Throw(it.st, ForAwaitError)
     ELSE restoreLoopScope(st,
            checkStatements(
              [it.st EXCEPT !.sym = MapSet(it.st.sym, node.variable, itemType)],
              node.body, Unknown))

checkForStatement(st, node) == checkLoop(st, node, inferExpression(st, node.iterable))

checkStatement(st, node) ==
  CASE node.type = "TypeDeclaration" -> checkTypeDeclaration(st, node)
    [] node.type = "InterfaceDeclaration" -> checkInterfaceDeclaration(st, node)
    [] node.type = "VariableDeclaration" -> checkVariableDeclaration(st, node)
    [] node.type = "FunctionDeclaration" -> checkFunctionDeclaration(st, node)
    [] node.type = "ReturnStatement" ->
         IF node.value # NoNode THEN inferExpression(st, node.value) ELSE Ret(st, Unknown)
    [] node.type = "IfStatement" -> checkIfStatement(st, node)
    [] node.type = "ForStatement" -> checkForStatement(st, node)
    [] node.type = "ExpressionStatement" -> inferExpression(st, node.expression)
    [] OTHER -> Ret(st, Unknown)

\* check(ast): the loop inside try, then the finally block
checkFinally(st, saved) == [st EXCEPT !.async = saved]

\* leaving check with the loop's result r: normally or by the exception in r
checkExit(r, saved) == Ret(checkFinally(r.st, saved), r.ty)

check(st, allowTLA, ast) ==
  checkExit(checkStatements([st EXCEPT !.async = allowTLA], ast.body, Unknown), st.async)

RECURSIVE collectReturns(_, _, _)

\* if (node.alternate) collectReturns(node.alternate), c what the consequent gave
collectAlternate(node, c) ==
  IF node.alternate = NoAlternate THEN c
  ELSE collectReturns(c.st, node.alternate, c.types)

\* mutant: the returns of For bodies are not collected
collectNode_NoFor(st, node, returnTypes) ==
  IF node.type = "ReturnStatement"
  THEN IF node.value # NoNode
       THEN pushReturn(inferExpression(st, node.value), returnTypes)
       ELSE [st |-> st, types |-> returnTypes]
  ELSE IF node.type = "IfStatement"
  THEN collectAlternate(node, collectReturns(st, node.consequent, returnTypes))
  ELSE [st |-> st, types |-> returnTypes]

\* the body of collectReturns' loop for one node
collectNode(st, node, returnTypes) ==
  IF node.type = "ReturnStatement"
  THEN IF node.value # NoNode
       THEN pushReturn(inferExpression(st, node.value), returnTypes)
       ELSE [st |-> st, types |-> returnTypes]
  ELSE IF node.type = "IfStatement"
  THEN collectAlternate(node, collectReturns(st, node.consequent, returnTypes))
  ELSE IF node.type = "ForStatement"
  THEN collectReturns(st, node.body, returnTypes)
  ELSE [st |-> st, types |-> returnTypes]

collectRest(c, nodes) == collectReturns(c.st, Tail(nodes), c.types)

collectReturns(st, nodes, returnTypes) ==
  IF Len(nodes) = 0 \/ st.thrown THEN [st |-> st, types |-> returnTypes]
  ELSE collectRest(collectNode(st, nodes[1], returnTypes), nodes)

combineReturns(returnTypes) ==
  IF Len(returnTypes) = 0 THEN Unknown
  ELSE IF Len(returnTypes) = 1 THEN returnTypes[1]
  ELSE Union(returnTypes)

\* the value inferReturnType returns, c what collectReturns(ast.body) gave
returnTypeOf(c) ==
  IF c.st.thrown THEN Ret(c.st, Unknown) ELSE Ret(c.st, combineReturns(c.types))

\* the part of inferReturnType after this.check(ast)
inferReturnTypeAfterCheck(st, ast) == returnTypeOf(collectReturns(st, ast.body, <<>>))

\* inferReturnType once this.check(ast) has ended with result c
afterCheck(c, ast) ==
  IF c.st.thrown THEN Ret(c.st, Unknown) ELSE inferReturnTypeAfterCheck(c.st, ast)

inferReturnType(st, allowTLA, ast) == afterCheck(check(st, allowTLA, ast), ast)

Program(stmts) == [type |-> "Program", body |-> stmts]

----------------------------------------------------------------------------
(* The programs the checker is run on: every sequence of at most MaxStmts  *)
(* top-level statements drawn from Statements.                             *)

One == Lit("number", "1")
StrA == Lit("string", "a")
True == Lit("boolean", "true")
AwaitP == Await(Id("p"))
TypeNumber == PrimitiveType("number")
TypeString == PrimitiveType("string")

\* new TypeChecker(contextTypes): host values p: Promise<number>, xs: number[],
\* ps: Promise<number[]>
ContextTypes ==
  [n \in {"p", "xs", "ps"} |->
     IF n = "p" THEN Promise(TNumber)
     ELSE IF n = "xs" THEN Arr(TNumber) ELSE Promise(Arr(TNumber))]

VarValues ==
  {One, StrA, AwaitP, Assign(Id("x"), One),
   Arrow(<<"y">>, AwaitP, TRUE), Arrow(<<"y">>, AwaitP, FALSE),
   Arrow(<<"y">>, One, TRUE)}

VarAnnotations == {NoAnn, TypeString, UnionType(<<TypeNumber, TypeString>>)}

VarDecls == {VarDecl("x", ann, v, FALSE) : ann \in VarAnnotations, v \in VarValues}

ReturnValues == {NoNode, One, StrA, Id("x"), AwaitP, Call(Id("f"), <<>>)}

Returns == {Return(v) : v \in ReturnValues}

ExprStmts == {ExprStmt(AwaitP), ExprStmt(Assign(Id("x"), StrA))}

FunctionBodies ==
  {<<Return(One)>>,
   <<Return(AwaitP)>>,
   <<VarDecl("x", NoAnn, AwaitP, FALSE)>>,
   <<If(True, <<Return(One)>>, NoAlternate), Return(StrA)>>,
   <<For("x", Id("xs"), <<Return(AwaitP)>>, FALSE)>>,
   <<Return(Id("p"))>>}

ReturnAnnotations == {NoAnn, TypeNumber, TypeReference("T")}

FuncDecls ==
  {FuncDecl("f", <<>>, ann, b, a) :
     ann \in ReturnAnnotations, b \in FunctionBodies, a \in BOOLEAN}
  \cup {FuncDecl("f", <<>>, PromiseType(TypeNumber), <<Return(v)>>, a) :
          v \in {One, StrA}, a \in BOOLEAN}
  \cup {FuncDecl("f", <<Param("f", TypeNumber)>>, TypeString, <<Return(One)>>, FALSE),
        FuncDecl("f", <<>>, TypeString, <<Return(Assign(Id("f"), One))>>, FALSE),
        FuncDecl("f", <<Param("x", NoAnn)>>, NoAnn, <<Return(Id("x"))>>, FALSE)}

Blocks ==
  {If(True, <<Return(One)>>, NoAlternate),
   If(True, <<Return(One)>>, <<Return(StrA)>>),
   If(True, <<FuncDecl("f", <<>>, NoAnn, <<Return(One)>>, FALSE)>>, <<Return(Id("x"))>>),
   For("x", Id("xs"), <<Return(Id("x"))>>, FALSE),
   For("x", Id("xs"), <<VarDecl("x", TypeString, One, FALSE)>>, FALSE),
   For("x", Id("ps"), <<Return(Id("x"))>>, TRUE),
   For("x", Id("xs"), <<Return(Id("x"))>>, TRUE),
   For("x", Id("p"), <<Return(Id("x"))>>, TRUE)}

TypeDecls == {TypeDecl("T", TypeNumber)}

Statements == VarDecls \cup Returns \cup ExprStmts \cup FuncDecls \cup Blocks \cup TypeDecls

----------------------------------------------------------------------------
(* The checker run of one program, a statement at a time:                  *)
(* inferReturnType = check (BeginCheck, CheckStep*, the finally) followed  *)
(* by collectReturns (EndCheck).                                           *)

NoOutcome == [thrown |-> FALSE, error |-> "", type |-> Unknown]
NoResult == [success |-> FALSE, returnType |-> "", code |-> "", error |-> "",
             hasReturnType |-> FALSE, hasCode |-> FALSE, hasError |-> FALSE]
NoSource == [text |-> "", front |-> "none", message |-> "", ast |-> Program(<<>>)]

Checker == CheckerState(symbolTable, customTypes, currentFunctionIsAsync)

Snapshot == [sym |-> symbolTable, custom |-> customTypes, async |-> currentFunctionIsAsync]

FacadeUnchanged == UNCHANGED <<result, source, calls, seen>>
TypesUnchanged == UNCHANGED <<tyS, tyT, assignable>>
EmitterUnchanged == UNCHANGED <<scopes, asyncContextStack, program, emitted, output>>
LexerUnchanged == UNCHANGED <<input, pos, line, column, tokenStart, tokens, lexError>>

\* a CodeGenerator as its constructor leaves it
EmitterConstructed ==
  /\ scopes = <<>>
  /\ asyncContextStack = <<>>
  /\ program = Program(<<>>)
  /\ emitted = <<>>
  /\ output = ""

\* a Lexer of the empty source as its constructor leaves it
LexerConstructed ==
  /\ input = <<>>
  /\ pos = 0
  /\ line = 1
  /\ column = 1
  /\ tokenStart = 0
  /\ tokens = <<>>
  /\ lexError = ""

ParserUnchanged == UNCHANGED <<parserTokens, parserPos, parsedBody, parseError>>

\* a Parser of the tokens of the empty source as its constructor leaves it
ParserConstructed ==
  /\ parserTokens = <<[type |-> "EOF", value |-> "", line |-> 1, column |-> 1]>>
  /\ parserPos = 0
  /\ parsedBody = <<>>
  /\ parseError = ""

InitCheck ==
  /\ symbolTable = ContextTypes
  /\ customTypes = EmptyMap
  /\ currentFunctionIsAsync = FALSE
  /\ allowTopLevelAwait \in BOOLEAN
  /\ savedAsync = FALSE
  /\ pc = "idle"
  /\ body = <<>>
  /\ outcome = NoOutcome
  /\ before = [sym |-> ContextTypes, custom |-> EmptyMap, async |-> FALSE]
  /\ result = NoResult
  /\ source = NoSource
  /\ calls = 0
  /\ seen = EmptyMap
  /\ tyS = Unknown
  /\ tyT = Unknown
  /\ assignable = TRUE
  /\ EmitterConstructed
  /\ LexerConstructed
  /\ ParserConstructed

BeginCheck ==
  /\ pc = "idle"
  /\ savedAsync' = currentFunctionIsAsync
  /\ currentFunctionIsAsync' = allowTopLevelAwait
  /\ before' = Snapshot
  /\ pc' = "check"
  /\ UNCHANGED <<symbolTable, customTypes, allowTopLevelAwait, body, outcome>>
  /\ FacadeUnchanged /\ TypesUnchanged /\ EmitterUnchanged /\ LexerUnchanged /\ ParserUnchanged

\* the checker's fields and the outcome after a step that ended with r
CheckerBecomes(r) ==
  /\ symbolTable' = r.st.sym
  /\ customTypes' = r.st.custom
  /\ currentFunctionIsAsync' = r.st.async
  /\ outcome' = [thrown |-> r.st.thrown, error |-> r.st.error, type |-> r.ty]

\* a statement's result as it leaves check: through finally when it threw
stepExit(r, saved) == IF r.st.thrown THEN checkExit(r, saved) ELSE r

CheckStep(stmt) ==
  /\ pc = "check"
  /\ Len(body) < MaxStmts
  /\ CheckerBecomes(stepExit(checkStatement(Checker, stmt), savedAsync))
  /\ pc' = IF outcome'.thrown THEN "done" ELSE "check"
  /\ body' = Append(body, stmt)
  /\ before' = Snapshot
  /\ UNCHANGED <<allowTopLevelAwait, savedAsync>>
  /\ FacadeUnchanged /\ TypesUnchanged /\ EmitterUnchanged /\ LexerUnchanged /\ ParserUnchanged

EndCheck ==
  /\ pc = "check"
  /\ CheckerBecomes(inferReturnTypeAfterCheck(checkFinally(Checker, savedAsync),
                                              Program(body)))
  /\ pc' = "returned"
  /\ before' = [Snapshot EXCEPT !.async = savedAsync]
  /\ UNCHANGED <<allowTopLevelAwait, savedAsync, body>>
  /\ FacadeUnchanged /\ TypesUnchanged /\ EmitterUnchanged /\ LexerUnchanged /\ ParserUnchanged

NextCheck ==
  \/ BeginCheck
  \/ \E stmt \in Statements : CheckStep(stmt)
  \/ EndCheck

SpecCheck == InitCheck /\ [][NextCheck]_vars

----------------------------------------------------------------------------
(* Vocabulary of the properties of the checker run *)

NoType == [kind |-> "none"]

Binding(sym, n) == IF n \in DOMAIN sym THEN sym[n] ELSE NoType

BeforeState == CheckerState(before.sym, before.custom, before.async)

\* the last action checked the top-level statement Last
AfterStep == pc \in {"check", "done"} /\ Len(body) > 0
Last == body[Len(body)]

\* an await (or for await) that lies lexically in a context that is not async
RECURSIVE AwaitOutsideAsync(_, _)
AwaitOutsideAsync(node, inAsync) ==
  LET any(nodes) == \E i \in DOMAIN nodes : AwaitOutsideAsync(nodes[i], inAsync)
  IN CASE node.type = "AwaitExpression" ->
            ~inAsync \/ AwaitOutsideAsync(node.argument, inAsync)
       [] node.type = "ArrowFunction" -> AwaitOutsideAsync(node.body, node.async)
       [] node.type = "FunctionDeclaration" ->
            \E i \in DOMAIN node.body : AwaitOutsideAsync(node.body[i], node.async)
       [] node.type = "BinaryExpression" -> any(<<node.left, node.right>>)
       [] node.type = "UnaryExpression" -> any(<<node.operand>>)
       [] node.type = "CallExpression" -> any(<<node.callee>> \o node.arguments)
       [] node.type = "MemberExpression" -> any(<<node.object>>)
       [] node.type = "ArrayExpression" -> any(node.elements)
       [] node.type = "ObjectExpression" ->
            \E i \in DOMAIN node.properties :
               AwaitOutsideAsync(node.properties[i].value, inAsync)
       [] node.type = "ConditionalExpression" ->
            any(<<node.test, node.consequent, node.alternate>>)
       [] node.type = "AssignmentExpression" -> any(<<node.target, node.value>>)
       [] node.type = "VariableDeclaration" -> any(<<node.value>>)
       [] node.type = "ReturnStatement" -> any(<<node.value>>)
       [] node.type = "ExpressionStatement" -> any(<<node.expression>>)
       [] node.type = "IfStatement" ->
            any(<<node.condition>> \o node.consequent \o node.alternate)
       [] node.type = "ForStatement" ->
            (node.async /\ ~inAsync) \/ any(<<node.iterable>> \o node.body)
       [] OTHER -> FALSE

\* the value expressions of the return statements reachable through
\* Program / If / For bodies, in source order
RECURSIVE ReturnExprs(_)
ReturnExprs(nodes) ==
  IF Len(nodes) = 0 THEN <<>>
  ELSE LET node == nodes[1]
           here == CASE node.type = "ReturnStatement" ->
                          IF node.value = NoNode THEN <<>> ELSE <<node.value>>
                     [] node.type = "IfStatement" ->
                          ReturnExprs(node.consequent)
                            \o (IF node.alternate = NoAlternate THEN <<>>
                                ELSE ReturnExprs(node.alternate))
                     [] node.type = "ForStatement" -> ReturnExprs(node.body)
                     [] OTHER -> <<>>
       IN here \o ReturnExprs(Tail(nodes))

\* the types of a list of expressions, inferred one after the other from st
RECURSIVE TypesOf(_, _)
TypesOf(st, exprs) ==
  IF Len(exprs) = 0 THEN <<>>
  ELSE LET r == inferExpression(st, exprs[1])
       IN <<r.ty>> \o TypesOf(r.st, Tail(exprs))

----------------------------------------------------------------------------
(* C2: with top-level await allowed, a program whose awaits are all in     *)
(* top-level statements (none inside a non-async function or arrow) is     *)
(* accepted: inferReturnType does not raise the await error, and a program *)
(* whose only return is `return await p` with p: Promise<number> has       *)
(* return type number.                                                     *)
C2_TopLevelAwaitAccepted ==
  (/\ pc \in {"done", "returned"}
   /\ allowTopLevelAwait
   /\ \A i \in DOMAIN body : ~AwaitOutsideAsync(body[i], TRUE))
  => /\ outcome.error # AwaitError
     /\ (pc = "returned" /\ ReturnExprs(body) = <<AwaitP>>
           /\ Binding(before.sym, "p") = Promise(TNumber))
        => outcome.type = TNumber

(* C3: a statement with an await lexically inside a non-async function     *)
(* declaration body or a non-async arrow body fails the check with the     *)
(* await error.                                                            *)
C3_AwaitInNonAsyncFunctionFails ==
  (AfterStep /\ AwaitOutsideAsync(Last, TRUE))
  => (outcome.thrown /\ outcome.error = AwaitError)

C6_FunctionReturnsThroughBlocks ==
  (AfterStep /\ ~outcome.thrown /\ Last.type = "FunctionDeclaration"
     /\ Last.returnTypeAnnotation = NoAnn /\ ~Last.async)
  => LET c == collectReturns(functionScope(BeforeState, Last), Last.body, <<>>)
         R == IF Len(c.types) = 0 THEN Unknown
              ELSE IF Len(c.types) = 1 THEN c.types[1]
              ELSE [kind |-> "union", types |-> c.types]
     IN ~c.st.thrown => symbolTable[Last.name].returnType = R

\* the types the checker collects from the body of the function Last
CollectedOfLast == functionReturns(functionScope(BeforeState, Last), Last.body, <<>>)

ComputedOfLast ==
  LET R == inferredReturnType(CollectedOfLast.types)
  IN IF Last.async /\ R.kind # "promise"
     THEN [kind |-> "promise", resolveType |-> R] ELSE R

AsyncArrowDecl ==
  /\ Last.type = "VariableDeclaration" /\ Last.typeAnnotation = NoAnn
  /\ Last.value.type = "ArrowFunction" /\ Last.value.async

ArrowBodyType ==
  inferExpression([BeforeState EXCEPT !.async = TRUE,
                     !.sym = arrowParams(before.sym, Last.value.params)],
                  Last.value.body).ty

(* C7 as stated: every async function declaration (and async arrow) that   *)
(* passes checking is bound with return type Promise<R>, or R when R is a  *)
(* Promise; the return type of an async function is always a Promise.      *)
C7_AsStated ==
  /\ (AfterStep /\ ~outcome.thrown /\ Last.type = "FunctionDeclaration" /\ Last.async)
     => /\ symbolTable[Last.name].returnType = ComputedOfLast
        /\ symbolTable[Last.name].returnType.kind = "promise"
  /\ (AfterStep /\ ~outcome.thrown /\ AsyncArrowDecl)
     => /\ symbolTable[Last.identifier].returnType.kind = "promise"
        /\ symbolTable[Last.identifier].returnType
             = IF ArrowBodyType.kind = "promise" THEN ArrowBodyType
               ELSE [kind |-> "promise", resolveType |-> ArrowBodyType]

(* C7 amended: every async function declaration without a return           *)
(* annotation (and every async arrow) that passes checking is bound with   *)
(* return type Promise<R>, or R when R is a Promise, so that type is a     *)
(* Promise; with a return annotation the return type is the declared type. *)
C7_AsyncWrapping ==
  /\ (AfterStep /\ ~outcome.thrown /\ Last.type = "FunctionDeclaration" /\ Last.async)
     => IF Last.returnTypeAnnotation = NoAnn
        THEN /\ symbolTable[Last.name].returnType = ComputedOfLast
             /\ symbolTable[Last.name].returnType.kind = "promise"
        ELSE symbolTable[Last.name].returnType
               = annotationToType(before.custom, Last.returnTypeAnnotation)
  /\ (AfterStep /\ ~outcome.thrown /\ AsyncArrowDecl)
     => /\ symbolTable[Last.identifier].returnType.kind = "promise"
        /\ symbolTable[Last.identifier].returnType
             = IF ArrowBodyType.kind = "promise" THEN ArrowBodyType
               ELSE [kind |-> "promise", resolveType |-> ArrowBodyType]

C7_Witness ==
  /\ AfterStep /\ ~outcome.thrown
  /\ Last.type = "FunctionDeclaration" /\ Last.async
  /\ Last.returnTypeAnnotation = NoAnn
  /\ symbolTable[Last.name].returnType = Promise(TNumber)

(* C8: with a return annotation, the computed return type (after async     *)
(* wrapping) must be assignable to the declared type: if it is, the        *)
(* function is bound with the declared type as its return type; if not,    *)
(* checking fails with "Function <name> returns <S> but declared <T>" and  *)
(* the function name is not bound (its binding is what it was).            *)
C8_DeclaredReturnType ==
  (AfterStep /\ Last.type = "FunctionDeclaration" /\ Last.returnTypeAnnotation # NoAnn
     /\ ~CollectedOfLast.st.thrown)
  => LET declared == annotationToType(before.custom, Last.returnTypeAnnotation)
     IN IF isAssignable(ComputedOfLast, declared)
        THEN /\ ~outcome.thrown
             /\ symbolTable[Last.name].kind = "function"
             /\ symbolTable[Last.name].returnType = declared
        ELSE /\ outcome.thrown
             /\ outcome.error = "Function " \o Last.name \o " returns "
                                  \o typeToString(ComputedOfLast) \o " but declared "
                                  \o typeToString(declared)
             /\ Binding(symbolTable, Last.name) = Binding(before.sym, Last.name)

ValueOfLast == inferExpression(BeforeState, Last.value)

(* C9 as stated: a variable declaration with value type V and annotation D *)
(* binds the name to D when isAssignable(V, D), and otherwise fails with   *)
(* "Cannot assign <V> to <D>" leaving the name's binding as it was before  *)
(* the declaration; without an annotation the name is bound to V.          *)
C9_AsStated ==
  (AfterStep /\ Last.type = "VariableDeclaration" /\ ~ValueOfLast.st.thrown)
  => LET V == ValueOfLast.ty
         D == annotationToType(before.custom, Last.typeAnnotation)
     IN IF Last.typeAnnotation = NoAnn
        THEN ~outcome.thrown /\ symbolTable[Last.identifier] = V
        ELSE IF isAssignable(V, D)
        THEN ~outcome.thrown /\ symbolTable[Last.identifier] = D
        ELSE /\ outcome.thrown
             /\ outcome.error = "Cannot assign " \o typeToString(V) \o " to "
                                  \o typeToString(D)
             /\ Binding(symbolTable, Last.identifier) = Binding(before.sym, Last.identifier)

(* C9 amended: as C9, but on failure the name's binding is left as the     *)
(* evaluation of the value expression left it (the declaration itself      *)
(* binds nothing; an assignment inside the value still takes effect).      *)
C9_VarDeclBinding ==
  (AfterStep /\ Last.type = "VariableDeclaration" /\ ~ValueOfLast.st.thrown)
  => LET V == ValueOfLast.ty
         D == annotationToType(before.custom, Last.typeAnnotation)
     IN IF Last.typeAnnotation = NoAnn
        THEN ~outcome.thrown /\ symbolTable[Last.identifier] = V
        ELSE IF isAssignable(V, D)
        THEN ~outcome.thrown /\ symbolTable[Last.identifier] = D
        ELSE /\ outcome.thrown
             /\ outcome.error = "Cannot assign " \o typeToString(V) \o " to "
                                  \o typeToString(D)
             /\ Binding(symbolTable, Last.identifier)
                  = Binding(ValueOfLast.st.sym, Last.identifier)

C9_Witness ==
  /\ AfterStep /\ Last.type = "VariableDeclaration"
  /\ outcome.thrown /\ outcome.error = "Cannot assign number to string"
  /\ Len(body) = 2 /\ body[1].type = "VariableDeclaration"
  /\ Binding(symbolTable, "x") = Union(<<TNumber, TString>>)

----------------------------------------------------------------------------
(* isAssignable as a function of its two arguments: the semantic types of  *)
(* nesting depth at most MaxTypeDepth.                                     *)

BaseTypes == {TNumber, TString, Unknown}

TypeConstructions(t) ==
  {Arr(t), Promise(t),
   Obj("", <<Prop("a", t)>>), Obj("Spell", <<Prop("a", t)>>),
   Fun(<<>>, t, FALSE), Fun(<<t>>, Unknown, TRUE),
   Union(<<t, TNumber>>), Union(<<TString, t>>)}

RECURSIVE TypesAt(_)
TypesAt(depth) ==
  IF depth = 0 THEN BaseTypes
  ELSE LET inner == TypesAt(depth - 1)
       IN inner \cup {Union(<<>>)} \cup UNION {TypeConstructions(t) : t \in inner}

TypePairs ==
  {<<t, t>> : t \in TypesAt(MaxTypeDepth)}
    \cup {<<t, Unknown>> : t \in TypesAt(MaxTypeDepth)}
    \cup (TypesAt(MaxTypeDepth - 1) \X TypesAt(MaxTypeDepth))

CheckerUnchanged ==
  UNCHANGED <<symbolTable, customTypes, currentFunctionIsAsync, allowTopLevelAwait,
              savedAsync, body, outcome, before>>

InitTypes ==
  /\ symbolTable = EmptyMap
  /\ customTypes = EmptyMap
  /\ currentFunctionIsAsync = FALSE
  /\ allowTopLevelAwait = TRUE
  /\ savedAsync = FALSE
  /\ pc = "types"
  /\ body = <<>>
  /\ outcome = NoOutcome
  /\ before = [sym |-> EmptyMap, custom |-> EmptyMap, async |-> FALSE]
  /\ result = NoResult
  /\ source = NoSource
  /\ calls = 0
  /\ seen = EmptyMap
  /\ tyS = Unknown
  /\ tyT = Unknown
  /\ assignable = TRUE
  /\ EmitterConstructed
  /\ LexerConstructed
  /\ ParserConstructed

IsAssignableCall(s, t) ==
  /\ pc = "types"
  /\ tyS' = s
  /\ tyT' = t
  /\ assignable' = isAssignable(s, t)
  /\ pc' = "assigned"
  /\ CheckerUnchanged /\ FacadeUnchanged /\ EmitterUnchanged /\ LexerUnchanged /\ ParserUnchanged

NextTypes ==
  /\ pc = "types"
  /\ \E pair \in TypePairs : IsAssignableCall(pair[1], pair[2])

SpecTypes == InitTypes /\ [][NextTypes]_vars

(* C10: isAssignable is reflexive: isAssignable(T, T) = true for every     *)
(* semantic type T of every kind and every nesting within the bound.       *)
C10_Reflexive == (pc = "assigned" /\ tyS = tyT) => assignable

----------------------------------------------------------------------------
(* CodeGenerator.  A generator state is the pair of stacks; statements     *)
(* return the state they leave (declarations are added to the current      *)
(* scope), expressions leave the stacks as they found them.                *)

GenState(scopeStack, asyncStack) ==
  [scopes |-> scopeStack, asyncContextStack |-> asyncStack]

Gen(gs, code) == [gs |-> gs, code |-> code]

isInAsyncContext(gs) ==
  Len(gs.asyncContextStack) > 0 /\ gs.asyncContextStack[Len(gs.asyncContextStack)]

isDeclared(gs, name) == \E i \in DOMAIN gs.scopes : name \in gs.scopes[i]

\* this.currentScope().add(name)
declare(gs, name) == [gs EXCEPT !.scopes[Len(gs.scopes)] = @ \cup {name}]

\* this.scopes.push(new Set()); this.asyncContextStack.push(isAsync); add names
pushFunction(gs, names, isAsync) ==
  GenState(Append(gs.scopes, names), Append(gs.asyncContextStack, isAsync))

Front(stack) == SubSeq(stack, 1, Len(stack) - 1)

\* mutant: the function's scope is left on the scope stack
popFunction_KeepScope(gs) == GenState(gs.scopes, Front(gs.asyncContextStack))

\* this.asyncContextStack.pop(); this.scopes.pop()
popFunction(gs) == GenState(Front(gs.scopes), Front(gs.asyncContextStack))

\* this.scopes.push(new Set()); this.currentScope().add(variable)
pushScope(gs, variable) == GenState(Append(gs.scopes, {variable}), gs.asyncContextStack)

\* this.scopes.pop()
popScope(gs) == GenState(Front(gs.scopes), gs.asyncContextStack)

\* JSON.stringify of a string without characters that need escaping
JSONstringify(str) == "\"" \o str \o "\""

RECURSIVE memberRoot(_)
memberRoot(node) ==
  IF node.type = "MemberExpression" THEN memberRoot(node.object) ELSE node

RECURSIVE memberParts(_)
memberParts(node) ==
  IF node.type = "MemberExpression"
  THEN Append(memberParts(node.object), [prop |-> node.property, computed |-> node.computed])
  ELSE <<>>

partText(part) ==
  IF part.computed
  THEN IF part.prop \in NumericStrings THEN "[" \o part.prop \o "]"
       ELSE "[" \o JSONstringify(part.prop) \o "]"
  ELSE "." \o part.prop

RECURSIVE partsText(_)
partsText(parts) ==
  IF Len(parts) = 0 THEN "" ELSE partText(parts[1]) \o partsText(Tail(parts))

arrayMethods ==
  {"find", "filter", "map", "slice", "concat", "at", "findIndex", "indexOf",
   "some", "every", "includes"}

RECURSIVE generateExpression(_, _)

\* mutant: an identifier is always rendered bare
identifierText_Bare(gs, name) == name

\* case 'Identifier': await an identifier that no scope declares, when the
\* context is async
identifierText(gs, name) ==
  IF ~isDeclared(gs, name) /\ isInAsyncContext(gs) THEN "await " \o name ELSE name

buildWithoutAwait(gs, n) ==
  IF n.type = "Identifier" THEN n.name ELSE "(" \o generateExpression(gs, n) \o ")"

\* mutant: only the root identifier is ever awaited
generateMemberAccess_RootOnly(gs, node, isCall, forAssignment) ==
  IF memberRoot(node).type = "Identifier"
  THEN IF ~isDeclared(gs, memberRoot(node).name) /\ isInAsyncContext(gs)
       THEN "(await " \o memberRoot(node).name \o ")" \o partsText(memberParts(node))
       ELSE memberRoot(node).name \o partsText(memberParts(node))
  ELSE buildWithoutAwait(gs, memberRoot(node)) \o partsText(memberParts(node))

generateMemberAccess(gs, node, isCall, forAssignment) ==
  LET parts == memberParts(node)
      root == memberRoot(node)
      last == parts[Len(parts)]
      beforeLast == buildWithoutAwait(gs, root) \o partsText(SubSeq(parts, 1, Len(parts) - 1))
      awaitRoot == isInAsyncContext(gs) /\ root.type = "Identifier"
                     /\ ~isDeclared(gs, root.name)
  IN IF isCall /\ Len(parts) > 0 /\ ~last.computed /\ last.prop \in arrayMethods
     THEN IF awaitRoot THEN "(await " \o beforeLast \o ")." \o last.prop
          ELSE beforeLast \o "." \o last.prop
     ELSE IF ~forAssignment /\ Len(parts) > 0 /\ last.computed
               /\ last.prop \in NumericStrings
     THEN IF awaitRoot THEN "(await " \o beforeLast \o ")[" \o last.prop \o "]"
          ELSE beforeLast \o "[" \o last.prop \o "]"
     ELSE IF root.type = "Identifier"
     THEN IF ~isDeclared(gs, root.name) /\ isInAsyncContext(gs)
          THEN "(await " \o root.name \o ")" \o partsText(parts)
          ELSE root.name \o partsText(parts)
     ELSE "(" \o generateExpression(gs, root) \o ")" \o partsText(parts)

\* node.properties.some(p => p.key === '_type')
hasExplicitTypeProp(node) ==
  \E i \in DOMAIN node.properties : node.properties[i].key = "_type"

\* the fields of the emitted literal, each a key and the text of its value
sourceFields(gs, node) ==
  [i \in DOMAIN node.properties |->
     [key |-> node.properties[i].key,
      text |-> generateExpression(gs, node.properties[i].value)]]

injectedField(typeName) == [key |-> "_type", text |-> JSONstringify(typeName)]

\* parts.push(`${key}: ${text}`) for each field, then `{ ${parts.join(', ')} }`
literalText(fields) ==
  "{ " \o Join([i \in DOMAIN fields |-> fields[i].key \o ": " \o fields[i].text], ", ")
       \o " }"

\* mutant: the _type field is injected whenever a type name is given
objectFields_AlwaysInject(gs, node, typeName) ==
  IF typeName # ""
  THEN <<injectedField(typeName)>> \o sourceFields(gs, node)
  ELSE sourceFields(gs, node)

objectFields(gs, node, typeName) ==
  IF typeName # "" /\ ~hasExplicitTypeProp(node)
  THEN <<injectedField(typeName)>> \o sourceFields(gs, node)
  ELSE sourceFields(gs, node)

generateObjectExpression(gs, node, typeName) ==
  literalText(objectFields(gs, node, typeName))

generateExpression(gs, node) ==
  LET list(nodes) == Join([i \in DOMAIN nodes |-> generateExpression(gs, nodes[i])], ", ")
  IN CASE node.type = "Literal" ->
            IF node.valueType = "string" THEN "\"" \o node.value \o "\"" ELSE node.value
       [] node.type = "Identifier" -> identifierText(gs, node.name)
       [] node.type = "BinaryExpression" ->
            "(" \o generateExpression(gs, node.left) \o " " \o node.operator \o " "
                \o generateExpression(gs, node.right) \o ")"
       [] node.type = "UnaryExpression" ->
            node.operator \o generateExpression(gs, node.operand)
       [] node.type = "CallExpression" ->
            IF node.callee.type = "MemberExpression"
            THEN generateMemberAccess(gs, node.callee, TRUE, FALSE)
                   \o "(" \o list(node.arguments) \o ")"
            ELSE IF node.callee.type = "Identifier" /\ ~isDeclared(gs, node.callee.name)
                      /\ isInAsyncContext(gs)
            THEN "(await " \o node.callee.name \o ")(" \o list(node.arguments) \o ")"
            ELSE generateExpression(gs, node.callee) \o "(" \o list(node.arguments) \o ")"
       [] node.type = "MemberExpression" -> generateMemberAccess(gs, node, FALSE, FALSE)
       [] node.type = "ArrayExpression" -> "[" \o list(node.elements) \o "]"
       [] node.type = "ObjectExpression" -> generateObjectExpression(gs, node, "")
       [] node.type = "ConditionalExpression" ->
            "(" \o generateExpression(gs, node.test) \o " ? "
                \o generateExpression(gs, node.consequent) \o " : "
                \o generateExpression(gs, node.alternate) \o ")"
       [] node.type = "ArrowFunction" ->
            (IF node.async THEN "async " ELSE "")
              \o "(" \o Join(node.params, ", ") \o ") => "
              \o generateExpression(
                   pushFunction(gs, {node.params[i] : i \in DOMAIN node.params}, node.async),
                   node.body)
       [] node.type = "AssignmentExpression" ->
            IF node.target.type = "Identifier"
            THEN node.target.name \o " = " \o generateExpression(gs, node.value)
            ELSE IF node.target.type = "MemberExpression"
            THEN generateMemberAccess(gs, node.target, FALSE, TRUE) \o " = "
                   \o generateExpression(gs, node.value)
            ELSE generateExpression(gs, node.target) \o " = "
                   \o generateExpression(gs, node.value)
       [] node.type = "AwaitExpression" -> "await " \o generateExpression(gs, node.argument)
       [] OTHER -> ""

RECURSIVE generateStatement(_, _)
RECURSIVE generateStatements(_, _, _)

\* stmts.map(s => this.generateStatement(s)): the lines, and the state left
generateRest(g, stmts, lines) ==
  generateStatements(g.gs, Tail(stmts), Append(lines, g.code))

generateStatements(gs, stmts, lines) ==
  IF Len(stmts) = 0 THEN [gs |-> gs, lines |-> lines]
  ELSE generateRest(generateStatement(gs, stmts[1]), stmts, lines)

generateStatement(gs, node) ==
  CASE node.type = "TypeDeclaration" -> Gen(gs, "")
    [] node.type = "InterfaceDeclaration" -> Gen(gs, "")
    [] node.type = "VariableDeclaration" ->
         LET keyword == IF node.constant THEN "const" ELSE "let"
             g == declare(gs, node.identifier)
         IN IF node.value.type = "ObjectExpression"
                 /\ node.typeAnnotation.type = "TypeReference"
            THEN Gen(g, keyword \o " " \o node.identifier \o " = "
                          \o generateObjectExpression(g, node.value, node.typeAnnotation.name)
                          \o ";")
            ELSE Gen(g, keyword \o " " \o node.identifier \o " = "
                          \o generateExpression(g, node.value) \o ";")
    [] node.type = "FunctionDeclaration" ->
         LET g == declare(gs, node.name)
             inner == pushFunction(g, {node.params[i].name : i \in DOMAIN node.params},
                                   node.async)
             b == generateStatements(inner, node.body, <<>>)
         IN Gen(popFunction(b.gs),
                (IF node.async THEN "async " ELSE "") \o "function " \o node.name
                  \o "(" \o Join([i \in DOMAIN node.params |-> node.params[i].name], ", ")
                  \o ") {\n" \o Join(b.lines, "\n") \o "\n}")
    [] node.type = "ReturnStatement" ->
         IF node.value # NoNode
         THEN Gen(gs, "return " \o generateExpression(gs, node.value) \o ";")
         ELSE Gen(gs, "return;")
    [] node.type = "IfStatement" ->
         LET condition == generateExpression(gs, node.condition)
             c == generateStatements(gs, node.consequent, <<>>)
             a == IF node.alternate = NoAlternate THEN [gs |-> c.gs, lines |-> <<>>]
                  ELSE generateStatements(c.gs, node.alternate, <<>>)
             alternate == IF node.alternate = NoAlternate THEN ""
                          ELSE "else {\n" \o Join(a.lines, "\n") \o "\n}"
         IN Gen(a.gs, "if (" \o condition \o ") {\n" \o Join(c.lines, "\n") \o "\n} "
                        \o alternate)
    [] node.type = "ForStatement" ->
         LET iterable == generateExpression(gs, node.iterable)
             b == generateStatements(pushScope(gs, node.variable), node.body, <<>>)
         IN Gen(popScope(b.gs),
                "for " \o (IF node.async THEN "await " ELSE "") \o "(const "
                  \o node.variable \o " of " \o iterable \o ") {\n"
                  \o Join(b.lines, "\n") \o "\n}")
    [] node.type = "ExpressionStatement" ->
         Gen(gs, generateExpression(gs, node.expression) \o ";")
    [] OTHER -> Gen(gs, "")

\* mutant: no line is filtered out
nonEmpty_KeepAll(lines) == lines

\* .filter(line => line !== '')
RECURSIVE nonEmpty(_)
nonEmpty(lines) ==
  IF Len(lines) = 0 THEN <<>>
  ELSE IF lines[1] = "" THEN nonEmpty(Tail(lines))
  ELSE <<lines[1]>> \o nonEmpty(Tail(lines))

generate(ast) ==
  Join(nonEmpty(generateStatements(GenState(<<{}>>, <<TRUE>>), ast.body, <<>>).lines), "\n")

----------------------------------------------------------------------------
(* The run of one CodeGenerator.generate(ast), a statement at a time       *)
(* (specification SpecEmit).  compile calls generate only on a program the *)
(* type checker has accepted.                                              *)

EmitStatements ==
  {VarDecl("x", NoAnn, One, FALSE),
   VarDecl("g", NoAnn, Arrow(<<"y">>, Id("p"), FALSE), FALSE),
   VarDecl("h", NoAnn, Arrow(<<"y">>, Id("y"), TRUE), FALSE),
   Return(Id("x")),
   Return(Id("p")),
   Return(Member(Id("xs"), "0", TRUE)),
   Return(Call(Id("f"), <<Id("x")>>)),
   ExprStmt(Assign(Id("x"), One)),
   ExprStmt(Assign(Member(Id("o"), "a", FALSE), Id("x"))),
   FuncDecl("f", <<>>, NoAnn, <<Return(Id("p"))>>, FALSE),
   FuncDecl("f", <<Param("x", NoAnn)>>, NoAnn, <<Return(Id("x"))>>, TRUE),
   If(True, <<VarDecl("x", NoAnn, One, FALSE)>>, <<Return(Id("x"))>>),
   For("x", Id("xs"), <<Return(Id("x"))>>, FALSE),
   Return(Member(Member(Id("o"), "a", FALSE), "b", FALSE)),
   Return(Member(Member(Id("x"), "a", FALSE), "0", TRUE)),
   ExprStmt(Call(Member(Member(Id("x"), "a", FALSE), "find", FALSE), <<Id("p")>>)),
   FuncDecl("k", <<>>, NoAnn,
            <<Return(Member(Member(Id("o"), "a", FALSE), "0", TRUE))>>, FALSE),
   VarDecl("s", TypeReference("T"), ObjectLit(<<Field("b", One), Field("a", Id("x"))>>), TRUE),
   VarDecl("s", TypeReference("T"), ObjectLit(<<Field("a", One), Field("_type", StrA)>>), FALSE),
   VarDecl("s", TypeReference("T"), ObjectLit(<<Field("_type", StrA), Field("_type", One)>>),
           FALSE),
   VarDecl("s", NoAnn, ObjectLit(<<Field("a", One)>>), FALSE),
   TypeDecl("T", TypeNumber),
   InterfaceDecl("I", <<IfaceField("a", TypeNumber)>>),
   ExprStmt(AwaitP),
   For("x", Id("ps"), <<ExprStmt(Id("x"))>>, TRUE),
   For("y", Id("xs"), <<FuncDecl("f", <<Param("z", NoAnn)>>, NoAnn, <<Return(Id("y"))>>, FALSE)>>,
       FALSE)}

ProgramsUpTo(n) == UNION {[1..k -> EmitStatements] : k \in 0..n}

\* index.ts: inferReturnType(ast) returned, so generate(ast) is called
Accepted(stmts) ==
  ~inferReturnType(CheckerState(ContextTypes, EmptyMap, FALSE), TRUE, Program(stmts)).st.thrown

AcceptedPrograms == {stmts \in ProgramsUpTo(MaxStmts) : Accepted(stmts)}

Generator == GenState(scopes, asyncContextStack)

NotEmitting ==
  UNCHANGED <<symbolTable, customTypes, currentFunctionIsAsync, allowTopLevelAwait,
              savedAsync, body, outcome, before>>
    /\ FacadeUnchanged /\ TypesUnchanged /\ LexerUnchanged /\ ParserUnchanged

InitEmit ==
  /\ symbolTable = ContextTypes
  /\ customTypes = EmptyMap
  /\ currentFunctionIsAsync = FALSE
  /\ allowTopLevelAwait = TRUE
  /\ savedAsync = FALSE
  /\ pc = "constructed"
  /\ body = <<>>
  /\ outcome = NoOutcome
  /\ before = [sym |-> ContextTypes, custom |-> EmptyMap, async |-> FALSE]
  /\ result = NoResult
  /\ source = NoSource
  /\ calls = 0
  /\ seen = EmptyMap
  /\ tyS = Unknown
  /\ tyT = Unknown
  /\ assignable = TRUE
  /\ EmitterConstructed
  /\ LexerConstructed
  /\ ParserConstructed

\* generate(ast): this.scopes = [new Set()]; this.asyncContextStack = [true]
BeginGenerate(stmts) ==
  /\ pc = "constructed"
  /\ program' = Program(stmts)
  /\ scopes' = <<{}>>
  /\ asyncContextStack' = <<TRUE>>
  /\ emitted' = <<>>
  /\ pc' = "emit"
  /\ UNCHANGED output
  /\ NotEmitting

\* the generator after generateStatement has returned g
EmitterBecomes(g) ==
  /\ scopes' = g.gs.scopes
  /\ asyncContextStack' = g.gs.asyncContextStack
  /\ emitted' = Append(emitted, g.code)

\* ast.body.map(stmt => this.generateStatement(stmt)): the next statement
EmitStatement ==
  /\ pc = "emit"
  /\ Len(emitted) < Len(program.body)
  /\ EmitterBecomes(generateStatement(Generator, program.body[Len(emitted) + 1]))
  /\ UNCHANGED <<pc, program, output>>
  /\ NotEmitting

\* .filter(line => line !== '').join('\n')
EndGenerate ==
  /\ pc = "emit"
  /\ Len(emitted) = Len(program.body)
  /\ output' = Join(nonEmpty(emitted), "\n")
  /\ pc' = "generated"
  /\ UNCHANGED <<scopes, asyncContextStack, program, emitted>>
  /\ NotEmitting

NextEmit ==
  \/ pc = "constructed" /\ \E stmts \in AcceptedPrograms : BeginGenerate(stmts)
  \/ EmitStatement
  \/ EndGenerate

SpecEmit == InitEmit /\ [][NextEmit]_vars

----------------------------------------------------------------------------
(* VerseScriptCompiler: one compiler object, holding one TypeChecker for   *)
(* its whole life; every compile call makes a fresh Lexer, Parser and      *)
(* CodeGenerator.                                                          *)

\* A source text with what Lexer.tokenize and Parser.parse make of it:
\* front = "lex" / "parse" when that stage throws Error(message), else the AST.
Source(text, front, message, stmts) ==
  [text |-> text, front |-> front, message |-> message, ast |-> Program(stmts)]

Parsed(text, stmts) == Source(text, "ok", "", stmts)

Sources ==
  { Parsed("return x", <<Return(Id("x"))>>),
    Parsed("let x = 1", <<VarDecl("x", NoAnn, One, FALSE)>>),
    Parsed("return p", <<Return(Id("p"))>>),
    Parsed("return await p", <<Return(AwaitP)>>),
    Parsed("let y: T = 1", <<VarDecl("y", TypeReference("T"), One, FALSE)>>),
    Parsed("fn f() -> number { return 1 }\nreturn f()",
           <<FuncDecl("f", <<>>, TypeNumber, <<Return(One)>>, FALSE),
             Return(Call(Id("f"), <<>>))>>),
    Parsed("let o: T = { a: 1 }\nreturn o.a",
           <<VarDecl("o", TypeReference("T"), ObjectLit(<<Field("a", One)>>), FALSE),
             Return(Member(Id("o"), "a", FALSE))>>),
    Parsed("", <<>>),
    Source("let s = \"a", "lex", "Unterminated string at line 1", <<>>),
    Source("let = 1", "parse", "Expected variable name at line 1, got EQUALS", <<>>) }

RegisteredTypes == {TString, Obj("T", <<Prop("a", TNumber)>>)}

Success(returnType, code) ==
  [success |-> TRUE, returnType |-> returnType, code |-> code, error |-> "",
   hasReturnType |-> TRUE, hasCode |-> TRUE, hasError |-> FALSE]

Failure_NoMessage(error) ==
  [success |-> FALSE, returnType |-> "", code |-> "", error |-> "",
   hasReturnType |-> FALSE, hasCode |-> FALSE, hasError |-> FALSE]

Failure(error) ==
  [success |-> FALSE, returnType |-> "", code |-> "", error |-> error,
   hasReturnType |-> FALSE, hasCode |-> FALSE, hasError |-> TRUE]

\* What compile(source) leaves in the type checker and what it returns.
\* compile after inferReturnType has ended with r: the catch block, or the
\* rest of the try block
compiled(r, ast) ==
  IF r.st.thrown
  THEN [st |-> [r.st EXCEPT !.thrown = FALSE, !.error = ""],
        result |-> Failure(r.st.error)]
  ELSE [st |-> r.st, result |-> Success(typeToString(r.ty), generate(ast))]

\* What compile(source) leaves in the type checker and what it returns.
compile(st, allowTLA, src) ==
  IF src.front # "ok" THEN [st |-> st, result |-> Failure(src.message)]
  ELSE compiled(inferReturnType(st, allowTLA, src.ast), src.ast)

CheckRunUnchanged == UNCHANGED <<savedAsync, body, outcome, before>>

Init ==
  /\ symbolTable = ContextTypes
  /\ customTypes = EmptyMap
  /\ currentFunctionIsAsync = FALSE
  /\ allowTopLevelAwait = TRUE
  /\ savedAsync = FALSE
  /\ pc = "ready"
  /\ body = <<>>
  /\ outcome = NoOutcome
  /\ before = [sym |-> ContextTypes, custom |-> EmptyMap, async |-> FALSE]
  /\ result = NoResult
  /\ source = NoSource
  /\ calls = 0
  /\ seen = [t \in {} |-> NoResult]
  /\ tyS = Unknown
  /\ tyT = Unknown
  /\ assignable = TRUE
  /\ EmitterConstructed
  /\ LexerConstructed
  /\ ParserConstructed

RegisterType(name, type) ==
  /\ pc \in {"ready", "compiled"}
  /\ customTypes' = MapSet(customTypes, name, type)
  /\ seen' = [t \in {} |-> NoResult]
  /\ pc' = "ready"
  /\ UNCHANGED <<symbolTable, currentFunctionIsAsync, allowTopLevelAwait,
                 result, source, calls>>
  /\ CheckRunUnchanged /\ TypesUnchanged /\ EmitterUnchanged /\ LexerUnchanged /\ ParserUnchanged

\* the compiler object after a compile call of src that ended with c
CompileReturns(src, c) ==
  /\ symbolTable' = c.st.sym
  /\ customTypes' = c.st.custom
  /\ currentFunctionIsAsync' = c.st.async
  /\ result' = c.result
  /\ seen' = IF src.text \in DOMAIN seen THEN seen
             ELSE MapSet(seen, src.text, c.result)

Compile(src) ==
  /\ pc \in {"ready", "compiled"}
  /\ calls < MaxCalls
  /\ CompileReturns(src, compile(Checker, allowTopLevelAwait, src))
  /\ source' = src
  /\ calls' = calls + 1
  /\ pc' = "compiled"
  /\ UNCHANGED allowTopLevelAwait
  /\ CheckRunUnchanged /\ TypesUnchanged /\ EmitterUnchanged /\ LexerUnchanged /\ ParserUnchanged

Next ==
  \/ \E type \in RegisteredTypes : RegisterType("T", type)
  \/ \E src \in Sources : Compile(src)

Spec == Init /\ [][Next]_vars

----------------------------------------------------------------------------
(* Properties of the compiler object (specification Spec).                 *)

\* C1: compile is a pure function of the source text and the registered
\* state: compiling a text again, with no type registered since its first
\* compilation, gives the result of that first compilation, whatever was
\* compiled in between.
C1_CompileIsPure ==
  (pc = "compiled" /\ source.text \in DOMAIN seen) => result = seen[source.text]

\* C4: compile never throws: every call returns either a success carrying a
\* return type and code and no error, or a failure carrying an error message
\* and neither code nor return type.
C4_ResultShape ==
  pc = "compiled"
  => \/ /\ result.success
        /\ result.hasReturnType /\ result.hasCode /\ ~result.hasError
        /\ source.front = "ok"
     \/ /\ ~result.success
        /\ result.hasError /\ result.error # ""
        /\ ~result.hasCode /\ ~result.hasReturnType

\* C4 witness: a compile that succeeded with code, on a compiler that has
\* also returned failures from the lexer, the parser and the type checker.
C4_Witness ==
  /\ pc = "compiled" /\ result.success /\ result.code # ""
  /\ \E t \in DOMAIN seen : seen[t].error = "Unterminated string at line 1"
  /\ \E t \in DOMAIN seen : seen[t].error = "Cannot assign number to string"

----------------------------------------------------------------------------
(* Lexer.  The source is a sequence of one-character strings; a lexer      *)
(* state lx holds pos (0-based, as in the code), line and column.  Every   *)
(* scanning method returns the lexer state it leaves with the token it     *)
(* made, or with the message of the Error it threw.                        *)

Digits == {"0", "1", "2", "3", "4", "5", "6", "7", "8", "9"}

LowerCase ==
  {"a", "b", "c", "d", "e", "f", "g", "h", "i", "j", "k", "l", "m",
   "n", "o", "p", "q", "r", "s", "t", "u", "v", "w", "x", "y", "z"}

UpperCase ==
  {"A", "B", "C", "D", "E", "F", "G", "H", "I", "J", "K", "L", "M",
   "N", "O", "P", "Q", "R", "S", "T", "U", "V", "W", "X", "Y", "Z"}

isDigit(char) == char \in Digits
isAlpha(char) == char \in LowerCase \/ char \in UpperCase \/ char = "_"
isAlphaNumeric(char) == isAlpha(char) \/ isDigit(char)

LexState(p, l, c) == [pos |-> p, line |-> l, column |-> c]

Token(type, value, l, c) == [type |-> type, value |-> value, line |-> l, column |-> c]

\* nextToken returned no token: the loop of tokenize ended at the break
NoToken == Token("none", "", 0, 0)

Lexed(lx, tok) == [lx |-> lx, tok |-> tok, thrown |-> FALSE, error |-> ""]
LexThrow(lx, message) == [lx |-> lx, tok |-> NoToken, thrown |-> TRUE, error |-> message]

\* this.source[i]: undefined past the end, "undefined" when appended to text
charAt(s, i) == IF i < Len(s) THEN s[i + 1] ELSE "undefined"

\* this.source[this.pos] || ''
peek(s, lx) == IF lx.pos < Len(s) THEN s[lx.pos + 1] ELSE ""

advance(lx) == [lx EXCEPT !.pos = @ + 1, !.column = @ + 1]
backup(lx) == [lx EXCEPT !.pos = @ - 1, !.column = @ - 1]

singleChar ==
  "(" :> "LPAREN" @@ ")" :> "RPAREN" @@ "{" :> "LBRACE" @@ "}" :> "RBRACE"
    @@ "[" :> "LBRACKET" @@ "]" :> "RBRACKET" @@ "," :> "COMMA" @@ "." :> "DOT"
    @@ ":" :> "COLON" @@ "+" :> "PLUS" @@ "*" :> "STAR" @@ "/" :> "SLASH"
    @@ "%" :> "PERCENT" @@ "?" :> "QUESTION"

keywords ==
  "let" :> "LET" @@ "const" :> "CONST" @@ "if" :> "IF" @@ "else" :> "ELSE"
    @@ "for" :> "FOR" @@ "in" :> "IN" @@ "return" :> "RETURN" @@ "fn" :> "FN"
    @@ "type" :> "TYPE" @@ "interface" :> "INTERFACE" @@ "true" :> "TRUE"
    @@ "false" :> "FALSE" @@ "null" :> "NULL" @@ "async" :> "ASYNC"
    @@ "await" :> "AWAIT"

\* the properties every object literal inherits from Object.prototype
ObjectPrototype ==
  {"constructor", "hasOwnProperty", "isPrototypeOf", "propertyIsEnumerable",
   "toLocaleString", "toString", "valueOf", "__proto__", "__defineGetter__",
   "__defineSetter__", "__lookupGetter__", "__lookupSetter__"}

\* keywords[value] || TokenType.IDENTIFIER: the lookup in the object literal
\* finds the own properties and the inherited ones, which are truthy
tokenTypeOf(value) ==
  IF value \in DOMAIN keywords THEN keywords[value]
  ELSE IF value \in ObjectPrototype THEN "Object.prototype." \o value
  ELSE "IDENTIFIER"

\* a scan that has read the text value and left the lexer at lx
Scanned(lx, value) == [lx |-> lx, value |-> value]

\* while (this.isDigit(this.peek())) { value += this.source[this.pos]; this.advance() }
RECURSIVE scanDigits(_, _, _)
scanDigits(s, lx, value) ==
  IF isDigit(peek(s, lx)) THEN scanDigits(s, advance(lx), value \o s[lx.pos + 1])
  ELSE Scanned(lx, value)

numberToken(d, startColumn) ==
  Lexed(d.lx, Token("NUMBER", d.value, d.lx.line, startColumn))

\* mutant: a `.` never continues a number
hasFraction_Never(s, lx) == FALSE

\* this.peek() === '.' && this.isDigit(this.source[this.pos + 1])
hasFraction(s, lx) == peek(s, lx) = "." /\ isDigit(charAt(s, lx.pos + 1))

\* scanNumber after the integer digits have been read
scanFraction(s, d, startColumn) ==
  IF hasFraction(s, d.lx)
  THEN numberToken(scanDigits(s, advance(d.lx), d.value \o "."), startColumn)
  ELSE numberToken(d, startColumn)

scanNumber(s, lx, negative) ==
  scanFraction(s, scanDigits(s, lx, IF negative THEN "-" ELSE ""), lx.column)

RECURSIVE scanAlphaNumeric(_, _, _)
scanAlphaNumeric(s, lx, value) ==
  IF isAlphaNumeric(peek(s, lx))
  THEN scanAlphaNumeric(s, advance(lx), value \o s[lx.pos + 1])
  ELSE Scanned(lx, value)

identifierToken(d, startColumn) ==
  Lexed(d.lx, Token(tokenTypeOf(d.value), d.value, d.lx.line, startColumn))

scanIdentifier(s, lx) == identifierToken(scanAlphaNumeric(s, lx, ""), lx.column)

\* escaped === 'n' ? '\n' : escaped === 't' ? '\t' : escaped
unescape(escaped) ==
  IF escaped = "n" THEN "\n" ELSE IF escaped = "t" THEN "\t" ELSE escaped

\* the while loop of scanString
RECURSIVE scanStringBody(_, _, _, _)
scanStringBody(s, lx, quote, value) ==
  IF lx.pos < Len(s) /\ s[lx.pos + 1] # quote
  THEN IF s[lx.pos + 1] = "\\"
       THEN scanStringBody(s, advance(advance(lx)), quote,
                           value \o unescape(charAt(s, lx.pos + 1)))
       ELSE scanStringBody(s, advance(lx), quote, value \o s[lx.pos + 1])
  ELSE Scanned(lx, value)

\* scanString after its loop
stringToken(s, d, startColumn) ==
  IF d.lx.pos >= Len(s)
  THEN LexThrow(d.lx, "Unterminated string at line " \o ToString(d.lx.line))
  ELSE Lexed(advance(d.lx), Token("STRING", d.value, d.lx.line, startColumn))

scanString(s, lx, quote) ==
  stringToken(s, scanStringBody(s, advance(lx), quote, ""), lx.column)

\* mutant: the character after the first one of an operator is never looked at
followedBy_Never(s, lx, char) == FALSE

\* this.peek() === char, after the first character of an operator
followedBy(s, lx, char) == peek(s, lx) = char

nextToken(s, lx) ==
  LET startColumn == lx.column
      char == s[lx.pos + 1]
      a == advance(lx)
      two(type, value) == Lexed(advance(a), Token(type, value, lx.line, startColumn))
      one(type) == Lexed(a, Token(type, char, lx.line, startColumn))
  IN IF char \in DOMAIN singleChar THEN one(singleChar[char])
     ELSE IF char = "="
     THEN IF followedBy(s, a, "=") THEN two("EQUALS_EQUALS", "==")
          ELSE IF followedBy(s, a, ">") THEN two("FAT_ARROW", "=>")
          ELSE one("EQUALS")
     ELSE IF char = "!"
     THEN IF followedBy(s, a, "=") THEN two("BANG_EQUALS", "!=") ELSE one("BANG")
     ELSE IF char = "<"
     THEN IF followedBy(s, a, "=") THEN two("LESS_EQUALS", "<=") ELSE one("LESS")
     ELSE IF char = ">"
     THEN IF followedBy(s, a, "=") THEN two("GREATER_EQUALS", ">=") ELSE one("GREATER")
     ELSE IF char = "&" /\ followedBy(s, a, "&") THEN two("AMPERSAND_AMPERSAND", "&&")
     ELSE IF char = "|"
     THEN IF followedBy(s, a, "|") THEN two("PIPE_PIPE", "||") ELSE one("PIPE")
     ELSE IF char = "-"
     THEN IF isDigit(peek(s, a)) THEN scanNumber(s, a, TRUE)
          ELSE IF followedBy(s, a, ">") THEN two("RETURN_ARROW", "->")
          ELSE one("MINUS")
     ELSE IF char = "\"" \/ char = "'" THEN scanString(s, lx, char)
     ELSE IF isDigit(char) THEN scanNumber(s, lx, FALSE)
     ELSE IF isAlpha(char) THEN scanIdentifier(s, lx)
     ELSE \* a lone `&` comes here after this.backup(): the lexer is at lx again
          LexThrow(backup(advance(lx)),
                   "Unexpected character '" \o char \o "' at line " \o ToString(lx.line)
                     \o ", column " \o ToString(lx.column))

\* the inner loop of the comment branch: up to the newline or the end
RECURSIVE skipLine(_, _)
skipLine(s, lx) ==
  IF lx.pos < Len(s) /\ s[lx.pos + 1] # "\n" THEN skipLine(s, advance(lx)) ELSE lx

\* mutant: `//` does not start a comment
startsComment_Never(s, lx) == FALSE

\* char === '/' && this.source[this.pos + 1] === '/'
startsComment(s, lx) == s[lx.pos + 1] = "/" /\ charAt(s, lx.pos + 1) = "/"

RECURSIVE skipWhitespace(_, _)
skipWhitespace(s, lx) ==
  IF lx.pos >= Len(s) THEN lx
  ELSE IF s[lx.pos + 1] \in {" ", "\t", "\r"} THEN skipWhitespace(s, advance(lx))
  ELSE IF s[lx.pos + 1] = "\n"
  THEN skipWhitespace(s, LexState(lx.pos + 1, lx.line + 1, 1))
  ELSE IF startsComment(s, lx) THEN skipWhitespace(s, skipLine(s, lx))
  ELSE lx

\* mutant: nextToken gives up without consuming a character
turnAfterWhitespace_NoToken(s, w) == Lexed(w, NoToken)

\* one turn of the loop of tokenize after skipWhitespace has left the lexer
\* at w: the break, or nextToken
turnAfterWhitespace(s, w) ==
  IF w.pos >= Len(s) THEN Lexed(w, NoToken) ELSE nextToken(s, w)

turn(s, lx) == turnAfterWhitespace(s, skipWhitespace(s, lx))

EOFToken(lx) == Token("EOF", "", lx.line, lx.column)

Tokenized(toks, thrown, error) == [tokens |-> toks, thrown |-> thrown, error |-> error]

RECURSIVE tokenizeFrom(_, _, _)

\* tokenize after a turn of its loop that ended with r
tokenizeAfter(s, r, toks) ==
  IF r.thrown THEN Tokenized(toks, TRUE, r.error)
  ELSE tokenizeFrom(s, r.lx, IF r.tok = NoToken THEN toks ELSE Append(toks, r.tok))

tokenizeFrom(s, lx, toks) ==
  IF lx.pos < Len(s) THEN tokenizeAfter(s, turn(s, lx), toks)
  ELSE Tokenized(Append(toks, EOFToken(lx)), FALSE, "")

\* new Lexer(s).tokenize()
tokenize(s) == tokenizeFrom(s, LexState(0, 1, 1), <<>>)

----------------------------------------------------------------------------
(* The run of one Lexer.tokenize(), a turn of its loop at a time           *)
(* (specification SpecLex).  The sources are the concatenations of up to   *)
(* MaxPieces pieces, and the lines `a//b` followed by a line c.            *)

MaxPieces == 3

LexPieces ==
  {<<"l", "e", "t">>, <<"x">>, <<"v", "a", "l", "u", "e", "O", "f">>, <<"1">>,
   <<".">>, <<"-">>, <<">">>, <<"=">>, <<"!">>, <<"<">>, <<"&">>, <<"|">>,
   <<" ">>, <<"\n">>, <<"/", "/">>, <<"\"">>, <<"\\">>}

RECURSIVE Flat(_)
Flat(pieces) == IF Len(pieces) = 0 THEN <<>> ELSE pieces[1] \o Flat(Tail(pieces))

LexSources ==
  {Flat(pieces) : pieces \in UNION {[1..n -> LexPieces] : n \in 0..MaxPieces}}
    \cup {Flat(<<abc[1], <<"/", "/">>, abc[2], <<"\n">>, abc[3]>>) :
            abc \in LexPieces \X LexPieces \X LexPieces}

LexerNow == LexState(pos, line, column)

NotLexing ==
  CheckerUnchanged /\ FacadeUnchanged /\ TypesUnchanged /\ EmitterUnchanged
    /\ ParserUnchanged

InitLex ==
  /\ symbolTable = ContextTypes
  /\ customTypes = EmptyMap
  /\ currentFunctionIsAsync = FALSE
  /\ allowTopLevelAwait = TRUE
  /\ savedAsync = FALSE
  /\ pc = "lex"
  /\ body = <<>>
  /\ outcome = NoOutcome
  /\ before = [sym |-> ContextTypes, custom |-> EmptyMap, async |-> FALSE]
  /\ result = NoResult
  /\ source = NoSource
  /\ calls = 0
  /\ seen = EmptyMap
  /\ tyS = Unknown
  /\ tyT = Unknown
  /\ assignable = TRUE
  /\ EmitterConstructed
  /\ input \in LexSources
  /\ pos = 0
  /\ line = 1
  /\ column = 1
  /\ tokenStart = 0
  /\ tokens = <<>>
  /\ lexError = ""
  /\ ParserConstructed

\* the lexer after a turn of the loop that ended with r
LexerBecomes(r) ==
  /\ pos' = r.lx.pos
  /\ line' = r.lx.line
  /\ column' = r.lx.column
  /\ tokens' = IF r.thrown \/ r.tok = NoToken THEN tokens ELSE Append(tokens, r.tok)
  /\ lexError' = r.error
  /\ pc' = IF r.thrown THEN "lexfailed" ELSE "lex"

\* nextToken is called where skipWhitespace left the lexer, at w, unless
\* that is the end of the source
startAfterWhitespace(w) == IF w.pos < Len(input) THEN w.pos ELSE tokenStart

\* while (this.pos < this.source.length) { skipWhitespace; break or nextToken }
LexTurn ==
  /\ pc = "lex"
  /\ pos < Len(input)
  /\ LexerBecomes(turn(input, LexerNow))
  /\ tokenStart' = startAfterWhitespace(skipWhitespace(input, LexerNow))
  /\ UNCHANGED input
  /\ NotLexing

\* tokens.push({ type: EOF, value: '', line: this.line, column: this.column })
PushEOF ==
  /\ pc = "lex"
  /\ pos >= Len(input)
  /\ tokens' = Append(tokens, EOFToken(LexerNow))
  /\ pc' = "tokenized"
  /\ UNCHANGED <<input, pos, line, column, tokenStart, lexError>>
  /\ NotLexing

NextLex == LexTurn \/ PushEOF

SpecLex == InitLex /\ [][NextLex]_vars

----------------------------------------------------------------------------
(* The parser (unnamed/part_002, class Parser).  A method is an operator   *)
(* of the token list ts and the position p (Parser.pos) it is called at;   *)
(* it yields the position it leaves the parser at with the node it         *)
(* returned, or the position it threw at with the message of the Error.    *)

POk(p, node) == [pos |-> p, node |-> node, thrown |-> FALSE, error |-> ""]
PErr(p, message) == [pos |-> p, node |-> NoNode, thrown |-> TRUE, error |-> message]

\* peek(): this.tokens[this.pos]
peekToken(ts, p) == ts[p + 1]

\* previous(): this.tokens[this.pos - 1]
previousToken(ts, p) == ts[p]

isAtEnd(ts, p) == peekToken(ts, p).type = "EOF"

\* check(type)
checkToken(ts, p, type) ==
  IF isAtEnd(ts, p) THEN FALSE ELSE peekToken(ts, p).type = type

\* advance(): the position it leaves
advanceToken(ts, p) == IF ~isAtEnd(ts, p) THEN p + 1 ELSE p

\* match(...types): whether it advanced
match(ts, p, types) == \E type \in types : checkToken(ts, p, type)

\* the position match(...types) leaves
afterMatch(ts, p, types) == IF match(ts, p, types) THEN advanceToken(ts, p) ELSE p

atLine(ts, p) == " at line " \o ToString(peekToken(ts, p).line)

\* consume(type, message): the token, or the Error
consume(ts, p, type, message) ==
  IF checkToken(ts, p, type) THEN POk(advanceToken(ts, p), peekToken(ts, p))
  ELSE PErr(p, message \o atLine(ts, p) \o ", got " \o peekToken(ts, p).type)

\* consume(type, message) after a step that ended with r, whose node is kept
consumeAfter(ts, r, type, message) ==
  IF r.thrown THEN r
  ELSE IF checkToken(ts, r.pos, type) THEN POk(advanceToken(ts, r.pos), r.node)
  ELSE consume(ts, r.pos, type, message)

\* String(parseFloat(text)) on the NUMBER token values of the model: a
\* Literal node holds the text of its value
parseFloat(text) ==
  CASE text = "01" -> "1"
    [] text = "1.0" -> "1"
    [] text = "-0" -> "0"
    [] text = "1.10" -> "1.1"
    [] OTHER -> text

RECURSIVE expression(_, _)
RECURSIVE statement(_, _)
RECURSIVE parseTypeAnnotation(_, _)

(* Expressions *)

arrowOf(params, b, isAsync) ==
  IF b.thrown THEN b ELSE POk(b.pos, Arrow(params, b.node, isAsync))

\* the body of an arrow function whose parameters c.node were read
arrowBody(ts, c, isAsync) ==
  IF c.thrown THEN c ELSE arrowOf(c.node, expression(ts, c.pos), isAsync)

RECURSIVE moreParams(_, _, _)

pushParam(ts, c, params) ==
  IF c.thrown THEN c ELSE moreParams(ts, c.pos, Append(params, c.node.value))

\* while (match(COMMA)) params.push(consume(IDENTIFIER, 'Expected parameter').value)
moreParams(ts, p, params) ==
  IF checkToken(ts, p, "COMMA")
  THEN pushParam(ts, consume(ts, p + 1, "IDENTIFIER", "Expected parameter"), params)
  ELSE POk(p, params)

\* do { params.push(consume(...).value) } while (match(COMMA))
parameterList(ts, p) ==
  pushParam(ts, consume(ts, p, "IDENTIFIER", "Expected parameter"), <<>>)

\* primary() after match(ASYNC)
asyncArrow(ts, p) ==
  IF checkToken(ts, p, "IDENTIFIER")
  THEN IF checkToken(ts, p + 1, "FAT_ARROW")
       THEN arrowOf(<<peekToken(ts, p).value>>, expression(ts, p + 2), TRUE)
       ELSE PErr(p + 1, "Expected => after async parameter")
  ELSE IF checkToken(ts, p, "LPAREN")
  THEN arrowBody(ts,
         consumeAfter(ts,
           consumeAfter(ts,
             IF checkToken(ts, p + 1, "RPAREN") THEN POk(p + 1, <<>>)
             ELSE parameterList(ts, p + 1),
             "RPAREN", "Expected ) after parameters"),
           "FAT_ARROW", "Expected => after async parameters"),
         TRUE)
  ELSE PErr(p, "Expected identifier or ( after async")

\* the attempt to read arrow function parameters after "("
groupParams(ts, p) ==
  IF ~checkToken(ts, p, "RPAREN") /\ checkToken(ts, p, "IDENTIFIER")
  THEN moreParams(ts, p + 1, <<peekToken(ts, p).value>>)
  ELSE POk(p, <<>>)

\* match(RPAREN) && match(FAT_ARROW), or else this.pos = startPos and the
\* grouped expression
groupAfterParams(ts, startPos, ps) ==
  IF ps.thrown THEN ps
  ELSE IF checkToken(ts, ps.pos, "RPAREN") /\ checkToken(ts, ps.pos + 1, "FAT_ARROW")
  THEN arrowOf(ps.node, expression(ts, ps.pos + 2), FALSE)
  ELSE consumeAfter(ts, expression(ts, startPos), "RPAREN", "Expected ) after expression")

\* primary() after match(LPAREN)
group(ts, p) == groupAfterParams(ts, p, groupParams(ts, p))

RECURSIVE expressionList(_, _, _)

expressionListAfter(ts, e, acc) ==
  IF e.thrown THEN e
  ELSE IF checkToken(ts, e.pos, "COMMA")
  THEN expressionList(ts, e.pos + 1, Append(acc, e.node))
  ELSE POk(e.pos, Append(acc, e.node))

\* do { push(expression()) } while (match(COMMA))
expressionList(ts, p, acc) == expressionListAfter(ts, expression(ts, p), acc)

\* the list between brackets that close with the token closing
expressionsUntil(ts, p, closing, message) ==
  consumeAfter(ts,
    IF checkToken(ts, p, closing) THEN POk(p, <<>>) ELSE expressionList(ts, p, <<>>),
    closing, message)

arrayOf(r) == IF r.thrown THEN r ELSE POk(r.pos, ArrayLit(r.node))

RECURSIVE propertyList(_, _, _)

propertyPushed(ts, key, v, acc) ==
  IF v.thrown THEN v
  ELSE IF checkToken(ts, v.pos, "COMMA")
  THEN propertyList(ts, v.pos + 1, Append(acc, Field(key, v.node)))
  ELSE POk(v.pos, Append(acc, Field(key, v.node)))

propertyValue(ts, k, acc) ==
  IF k.thrown THEN k ELSE propertyPushed(ts, k.node.value, expression(ts, k.pos), acc)

\* do { key: value } while (match(COMMA))
propertyList(ts, p, acc) ==
  propertyValue(ts,
    consumeAfter(ts, consume(ts, p, "IDENTIFIER", "Expected property key"),
                 "COLON", "Expected : after property key"),
    acc)

objectOf(r) == IF r.thrown THEN r ELSE POk(r.pos, ObjectLit(r.node))

\* primary() after match(LBRACE)
objectLiteral(ts, p) ==
  objectOf(consumeAfter(ts,
    IF checkToken(ts, p, "RBRACE") THEN POk(p, <<>>) ELSE propertyList(ts, p, <<>>),
    "RBRACE", "Expected } after object properties"))

\* primary() after match(IDENTIFIER)
identifierOrArrow(ts, p, name) ==
  IF checkToken(ts, p, "FAT_ARROW") THEN arrowOf(<<name>>, expression(ts, p + 1), FALSE)
  ELSE POk(p, Id(name))

\* the tests of primary() are on the type of one token, so at most one holds
primary(ts, p) ==
  CASE checkToken(ts, p, "TRUE") -> POk(p + 1, Lit("boolean", "true"))
    [] checkToken(ts, p, "FALSE") -> POk(p + 1, Lit("boolean", "false"))
    [] checkToken(ts, p, "NULL") -> POk(p + 1, Lit("null", "null"))
    [] checkToken(ts, p, "NUMBER") ->
         POk(p + 1, Lit("number", parseFloat(peekToken(ts, p).value)))
    [] checkToken(ts, p, "STRING") -> POk(p + 1, Lit("string", peekToken(ts, p).value))
    [] checkToken(ts, p, "ASYNC") -> asyncArrow(ts, p + 1)
    [] checkToken(ts, p, "IDENTIFIER") -> identifierOrArrow(ts, p + 1, peekToken(ts, p).value)
    [] checkToken(ts, p, "LPAREN") -> group(ts, p + 1)
    [] checkToken(ts, p, "LBRACKET") ->
         arrayOf(expressionsUntil(ts, p + 1, "RBRACKET", "Expected ] after array elements"))
    [] checkToken(ts, p, "LBRACE") -> objectLiteral(ts, p + 1)
    [] OTHER -> PErr(p, "Unexpected token: " \o peekToken(ts, p).type \o atLine(ts, p))

dotProperty(object, c) ==
  IF c.thrown THEN c ELSE POk(c.pos, Member(object, c.node.value, FALSE))

\* expr[index]: String(indexExpr.value) is the text a Literal node holds
computedProperty(object, i) ==
  IF i.thrown THEN i
  ELSE IF i.node.type = "Literal" THEN POk(i.pos, Member(object, i.node.value, TRUE))
  ELSE PErr(i.pos, "Complex computed member access not yet supported")

RECURSIVE memberLoop(_, _)
memberLoop(ts, e) ==
  IF e.thrown THEN e
  ELSE IF checkToken(ts, e.pos, "DOT")
  THEN memberLoop(ts,
         dotProperty(e.node, consume(ts, e.pos + 1, "IDENTIFIER", "Expected property name")))
  ELSE IF checkToken(ts, e.pos, "LBRACKET")
  THEN memberLoop(ts,
         computedProperty(e.node,
           consumeAfter(ts, expression(ts, e.pos + 1), "RBRACKET", "Expected ] after index")))
  ELSE e

member(ts, p) == memberLoop(ts, primary(ts, p))

callOf(callee, a) == IF a.thrown THEN a ELSE POk(a.pos, Call(callee, a.node))

RECURSIVE callLoop(_, _)
callLoop(ts, e) ==
  IF e.thrown THEN e
  ELSE IF checkToken(ts, e.pos, "LPAREN")
  THEN callLoop(ts,
         callOf(e.node, expressionsUntil(ts, e.pos + 1, "RPAREN", "Expected ) after arguments")))
  ELSE e

call(ts, p) == callLoop(ts, member(ts, p))

unaryOf(operator, e) == IF e.thrown THEN e ELSE POk(e.pos, Unary(operator, e.node))
awaitOf(e) == IF e.thrown THEN e ELSE POk(e.pos, Await(e.node))

RECURSIVE unary(_, _)
unary(ts, p) ==
  CASE match(ts, p, {"BANG", "MINUS"}) -> unaryOf(peekToken(ts, p).value, unary(ts, p + 1))
    [] checkToken(ts, p, "AWAIT") -> awaitOf(unary(ts, p + 1))
    [] OTHER -> call(ts, p)

\* The binary levels, loosest first: logicalOr, logicalAnd, equality,
\* comparison, additive, multiplicative.  Each method reads its left operand
\* with the method of the next tighter level (multiplicative with unary) and
\* then loops on its own operators, so the method of a level is the loops
\* of the levels from the tightest down to it, applied in that order to what
\* unary() returned; an Error ends them all.
BinaryLevels ==
  <<{"PIPE_PIPE"}, {"AMPERSAND_AMPERSAND"}, {"EQUALS_EQUALS", "BANG_EQUALS"},
    {"LESS", "LESS_EQUALS", "GREATER", "GREATER_EQUALS"}, {"PLUS", "MINUS"},
    {"STAR", "SLASH", "PERCENT"}>>

RECURSIVE binaryLevel(_, _, _)
RECURSIVE binaryLoop(_, _, _)
RECURSIVE loopsDownTo(_, _, _, _)

binaryOf(ts, level, operator, left, r) ==
  IF r.thrown THEN r ELSE binaryLoop(ts, level, POk(r.pos, Binary(operator, left, r.node)))

\* while (match(...)) { operator = previous().value; right = the next
\* tighter level; left = { BinaryExpression } }, with left in l
binaryLoop(ts, level, l) ==
  IF match(ts, l.pos, BinaryLevels[level])
  THEN binaryOf(ts, level, peekToken(ts, l.pos).value, l.node,
                binaryLevel(ts, l.pos + 1, level + 1))
  ELSE l

\* the loops of the levels from..level, tightest first
loopsDownTo(ts, from, level, l) ==
  IF l.thrown THEN l
  ELSE IF from < level THEN l
  ELSE loopsDownTo(ts, from - 1, level, binaryLoop(ts, from, l))

\* the method of a level; past the tightest level it is unary()
binaryLevel(ts, p, level) == loopsDownTo(ts, Len(BinaryLevels), level, unary(ts, p))

multiplicative(ts, p) == binaryLevel(ts, p, 6)
additive(ts, p) == binaryLevel(ts, p, 5)
comparison(ts, p) == binaryLevel(ts, p, 4)
equality(ts, p) == binaryLevel(ts, p, 3)
logicalAnd(ts, p) == binaryLevel(ts, p, 2)
logicalOr(ts, p) == binaryLevel(ts, p, 1)

conditionalOf(test, consequent, a) ==
  IF a.thrown THEN a ELSE POk(a.pos, Cond(test, consequent, a.node))

conditionalElse(ts, test, c) ==
  IF c.thrown THEN c ELSE conditionalOf(test, c.node, expression(ts, c.pos))

conditionalAfter(ts, t) ==
  IF t.thrown THEN t
  ELSE IF checkToken(ts, t.pos, "QUESTION")
  THEN conditionalElse(ts, t.node,
         consumeAfter(ts, expression(ts, t.pos + 1),
                      "COLON", "Expected : in ternary expression"))
  ELSE t

conditional(ts, p) == conditionalAfter(ts, logicalOr(ts, p))

assignOf(target, v) == IF v.thrown THEN v ELSE POk(v.pos, Assign(target, v.node))

RECURSIVE assignment(_, _)

assignmentAfter(ts, e) ==
  IF e.thrown THEN e
  ELSE IF checkToken(ts, e.pos, "EQUALS") THEN assignOf(e.node, assignment(ts, e.pos + 1))
  ELSE e

assignment(ts, p) == assignmentAfter(ts, conditional(ts, p))

expression(ts, p) == assignment(ts, p)

(* Type annotations *)

RECURSIVE typeProperties(_, _, _, _)

typePropertyPushed(ts, key, t, acc, isInterface) ==
  IF t.thrown THEN t
  ELSE typeProperties(ts, afterMatch(ts, t.pos, {"COMMA"}),
         Append(acc, IF isInterface THEN IfaceField(key, t.node) ELSE AnnField(key, t.node)),
         isInterface)

typePropertyValue(ts, k, acc, isInterface) ==
  IF k.thrown THEN k
  ELSE typePropertyPushed(ts, k.node.value, parseTypeAnnotation(ts, k.pos), acc, isInterface)

\* while (!check(RBRACE) && !isAtEnd()) { key: type, optional comma }, of an
\* object type or of an interface
typeProperties(ts, p, acc, isInterface) ==
  IF ~checkToken(ts, p, "RBRACE") /\ ~isAtEnd(ts, p)
  THEN typePropertyValue(ts,
         consumeAfter(ts, consume(ts, p, "IDENTIFIER", "Expected property name"),
                      "COLON", "Expected : after property name"),
         acc, isInterface)
  ELSE POk(p, acc)

objectTypeOf(r) == IF r.thrown THEN r ELSE POk(r.pos, ObjectType(r.node))

parseBaseType(ts, p) ==
  IF peekToken(ts, p).type = "IDENTIFIER"
       /\ peekToken(ts, p).value \in {"number", "string", "boolean", "null"}
  THEN POk(advanceToken(ts, p), PrimitiveType(peekToken(ts, p).value))
  ELSE IF peekToken(ts, p).type = "NULL"
  THEN POk(advanceToken(ts, p), PrimitiveType(peekToken(ts, p).value))
  ELSE IF checkToken(ts, p, "LBRACE")
  THEN objectTypeOf(consumeAfter(ts, typeProperties(ts, p + 1, <<>>, FALSE),
                                 "RBRACE", "Expected }"))
  ELSE IF checkToken(ts, p, "IDENTIFIER") THEN POk(p + 1, TypeReference(peekToken(ts, p).value))
  ELSE PErr(p, "Expected type annotation" \o atLine(ts, p))

arrayTypeOf(elementType, c) == IF c.thrown THEN c ELSE POk(c.pos, ArrayType(elementType))

singleTypeAfter(ts, b) ==
  IF b.thrown THEN b
  ELSE IF checkToken(ts, b.pos, "LBRACKET")
  THEN arrayTypeOf(b.node, consume(ts, b.pos + 1, "RBRACKET", "Expected ] after ["))
  ELSE b

parseSingleType(ts, p) == singleTypeAfter(ts, parseBaseType(ts, p))

promiseOf(r) == IF r.thrown THEN r ELSE POk(r.pos, PromiseType(r.node))

promiseResolveType(ts, c) == IF c.thrown THEN c ELSE parseTypeAnnotation(ts, c.pos)

RECURSIVE unionTypes(_, _, _)

\* types.push(parseSingleType()) while (match(PIPE))
unionTypes(ts, t, types) ==
  IF t.thrown THEN t
  ELSE IF checkToken(ts, t.pos, "PIPE")
  THEN unionTypes(ts, parseSingleType(ts, t.pos + 1), Append(types, t.node))
  ELSE POk(t.pos, Append(types, t.node))

unionOf(r) ==
  IF r.thrown THEN r
  ELSE POk(r.pos, IF Len(r.node) = 1 THEN r.node[1] ELSE UnionType(r.node))

parseTypeAnnotation(ts, p) ==
  IF checkToken(ts, p, "IDENTIFIER") /\ peekToken(ts, p).value = "Promise"
  THEN promiseOf(consumeAfter(ts,
         promiseResolveType(ts, consume(ts, p + 1, "LESS", "Expected < after Promise")),
         "GREATER", "Expected > after Promise type"))
  ELSE unionOf(unionTypes(ts, parseSingleType(ts, p), <<>>))

(* Statements *)

RECURSIVE blockBody(_, _, _)

blockPush(ts, s, acc) ==
  IF s.thrown THEN s ELSE blockBody(ts, s.pos, Append(acc, s.node))

\* while (!check(RBRACE) && !isAtEnd()) body.push(statement())
blockBody(ts, p, acc) ==
  IF ~checkToken(ts, p, "RBRACE") /\ ~isAtEnd(ts, p)
  THEN blockPush(ts, statement(ts, p), acc)
  ELSE POk(p, acc)

\* the statements up to the closing brace, which is consumed
block(ts, p, message) == consumeAfter(ts, blockBody(ts, p, <<>>), "RBRACE", message)

typeDeclOf(name, a) == IF a.thrown THEN a ELSE POk(a.pos, TypeDecl(name, a.node))

typeDeclarationAfter(ts, n) ==
  IF n.thrown THEN n ELSE typeDeclOf(n.node.value, parseTypeAnnotation(ts, n.pos))

typeDeclaration(ts, p) ==
  typeDeclarationAfter(ts,
    consumeAfter(ts, consume(ts, p, "IDENTIFIER", "Expected type name"),
                 "EQUALS", "Expected = after type name"))

interfaceDeclOf(name, ps) == IF ps.thrown THEN ps ELSE POk(ps.pos, InterfaceDecl(name, ps.node))

interfaceDeclarationAfter(ts, n) ==
  IF n.thrown THEN n
  ELSE interfaceDeclOf(n.node.value,
         consumeAfter(ts, typeProperties(ts, n.pos, <<>>, TRUE),
                      "RBRACE", "Expected } after interface body"))

interfaceDeclaration(ts, p) ==
  interfaceDeclarationAfter(ts,
    consumeAfter(ts, consume(ts, p, "IDENTIFIER", "Expected interface name"),
                 "LBRACE", "Expected { after interface name"))

varDeclOf(name, annotation, constant, v) ==
  IF v.thrown THEN v ELSE POk(v.pos, VarDecl(name, annotation, v.node, constant))

variableValue(ts, constant, name, a) ==
  IF a.thrown THEN a ELSE varDeclOf(name, a.node, constant, expression(ts, a.pos))

variableNamed(ts, constant, n) ==
  IF n.thrown THEN n
  ELSE variableValue(ts, constant, n.node.value,
         consumeAfter(ts,
           IF checkToken(ts, n.pos, "COLON") THEN parseTypeAnnotation(ts, n.pos + 1)
           ELSE POk(n.pos, NoAnn),
           "EQUALS", "Expected = after variable name"))

\* after match(LET, CONST)
variableDeclaration(ts, p) ==
  variableNamed(ts, previousToken(ts, p).type = "CONST",
                consume(ts, p, "IDENTIFIER", "Expected variable name"))

RECURSIVE typedParams(_, _, _)

typedParamPushed(ts, name, a, acc) ==
  IF a.thrown THEN a
  ELSE IF checkToken(ts, a.pos, "COMMA")
  THEN typedParams(ts, a.pos + 1, Append(acc, Param(name, a.node)))
  ELSE POk(a.pos, Append(acc, Param(name, a.node)))

typedParam(ts, n, acc) ==
  IF n.thrown THEN n
  ELSE typedParamPushed(ts, n.node.value,
         IF checkToken(ts, n.pos, "COLON") THEN parseTypeAnnotation(ts, n.pos + 1)
         ELSE POk(n.pos, NoAnn),
         acc)

\* do { name, optional annotation } while (match(COMMA))
typedParams(ts, p, acc) ==
  typedParam(ts, consume(ts, p, "IDENTIFIER", "Expected parameter name"), acc)

funcDeclOf(name, params, annotation, isAsync, b) ==
  IF b.thrown THEN b ELSE POk(b.pos, FuncDecl(name, params, annotation, b.node, isAsync))

functionBlock(ts, isAsync, name, params, a) ==
  IF a.thrown THEN a
  ELSE funcDeclOf(name, params, a.node, isAsync,
                  block(ts, a.pos, "Expected } after function body"))

functionReturnType(ts, isAsync, name, ps) ==
  IF ps.thrown THEN ps
  ELSE functionBlock(ts, isAsync, name, ps.node,
         consumeAfter(ts,
           IF checkToken(ts, ps.pos, "RETURN_ARROW") THEN parseTypeAnnotation(ts, ps.pos + 1)
           ELSE POk(ps.pos, NoAnn),
           "LBRACE", "Expected { before function body"))

functionParams(ts, isAsync, n) ==
  IF n.thrown THEN n
  ELSE functionReturnType(ts, isAsync, n.node.value,
         consumeAfter(ts,
           IF checkToken(ts, n.pos, "RPAREN") THEN POk(n.pos, <<>>)
           ELSE typedParams(ts, n.pos, <<>>),
           "RPAREN", "Expected ) after parameters"))

functionDeclaration(ts, p, isAsync) ==
  functionParams(ts, isAsync,
    consumeAfter(ts, consume(ts, p, "IDENTIFIER", "Expected function name"),
                 "LPAREN", "Expected ( after function name"))

returnOf(v) == IF v.thrown THEN v ELSE POk(v.pos, Return(v.node))

returnStatement(ts, p) ==
  IF checkToken(ts, p, "RBRACE") \/ isAtEnd(ts, p) THEN POk(p, Return(NoNode))
  ELSE returnOf(expression(ts, p))

ifOf(condition, consequent, a) ==
  IF a.thrown THEN a ELSE POk(a.pos, If(condition, consequent, a.node))

elseBlock(ts, c) ==
  IF c.thrown THEN c ELSE block(ts, c.pos, "Expected } after else body")

ifAlternate(ts, condition, b) ==
  IF b.thrown THEN b
  ELSE IF checkToken(ts, b.pos, "ELSE")
  THEN ifOf(condition, b.node,
            elseBlock(ts, consume(ts, b.pos + 1, "LBRACE", "Expected { after else")))
  ELSE POk(b.pos, If(condition, b.node, NoAlternate))

ifConsequent(ts, c) ==
  IF c.thrown THEN c
  ELSE ifAlternate(ts, c.node, block(ts, c.pos, "Expected } after if body"))

ifStatement(ts, p) ==
  ifConsequent(ts, consumeAfter(ts, expression(ts, p), "LBRACE", "Expected { after if condition"))

forOf(variable, iterable, isAwait, b) ==
  IF b.thrown THEN b ELSE POk(b.pos, For(variable, iterable, b.node, isAwait))

forBody(ts, isAwait, variable, i) ==
  IF i.thrown THEN i
  ELSE forOf(variable, i.node, isAwait, block(ts, i.pos, "Expected } after for body"))

forIterable(ts, isAwait, v) ==
  IF v.thrown THEN v
  ELSE forBody(ts, isAwait, v.node.value,
         consumeAfter(ts, expression(ts, v.pos), "LBRACE", "Expected { after for header"))

forStatement(ts, p) ==
  forIterable(ts, checkToken(ts, p, "AWAIT"),
    consumeAfter(ts,
      consume(ts, afterMatch(ts, p, {"AWAIT"}), "IDENTIFIER",
              "Expected variable name in for loop"),
      "IN", "Expected \"in\" in for loop"))

exprStmtOf(e) == IF e.thrown THEN e ELSE POk(e.pos, ExprStmt(e.node))

expressionStatement(ts, p) == exprStmtOf(expression(ts, p))

\* statement() after match(ASYNC)
asyncFunction(ts, p) ==
  IF checkToken(ts, p, "FN") THEN functionDeclaration(ts, p + 1, TRUE)
  ELSE PErr(p, "Expected \"fn\" after \"async\"")

\* the tests of statement() are on the type of one token, so at most one holds
statement(ts, p) ==
  CASE checkToken(ts, p, "TYPE") -> typeDeclaration(ts, p + 1)
    [] checkToken(ts, p, "INTERFACE") -> interfaceDeclaration(ts, p + 1)
    [] match(ts, p, {"LET", "CONST"}) -> variableDeclaration(ts, p + 1)
    [] checkToken(ts, p, "ASYNC") -> asyncFunction(ts, p + 1)
    [] checkToken(ts, p, "FN") -> functionDeclaration(ts, p + 1, FALSE)
    [] checkToken(ts, p, "RETURN") -> returnStatement(ts, p + 1)
    [] checkToken(ts, p, "IF") -> ifStatement(ts, p + 1)
    [] checkToken(ts, p, "FOR") -> forStatement(ts, p + 1)
    [] OTHER -> expressionStatement(ts, p)

ParseResult(ast, thrown, error) == [ast |-> ast, thrown |-> thrown, error |-> error]

RECURSIVE parseFrom(_, _, _)

parseAfter(ts, s, stmts) ==
  IF s.thrown THEN ParseResult(Program(stmts), TRUE, s.error)
  ELSE parseFrom(ts, s.pos, Append(stmts, s.node))

parseFrom(ts, p, stmts) ==
  IF ~isAtEnd(ts, p) THEN parseAfter(ts, statement(ts, p), stmts)
  ELSE ParseResult(Program(stmts), FALSE, "")

\* new Parser(ts).parse()
parse(ts) == parseFrom(ts, 0, <<>>)

----------------------------------------------------------------------------
(* The run of one Parser.parse(), a statement of the top level at a time   *)
(* (specification SpecParse).  The parser is given the tokens of a source  *)
(* of up to MaxTokens pieces, one piece a line, so that the line of a      *)
(* token tells which token it is.                                          *)

MaxTokens == 4

ParsePieces ==
  {<<"l", "e", "t">>, <<"x">>, <<"1">>, <<"=">>, <<":">>,
   <<"a", "s", "y", "n", "c">>, <<"=", ">">>, <<"(">>, <<")">>, <<"[">>, <<"]">>,
   <<"-">>}

RECURSIVE Lines(_)
Lines(pieces) ==
  IF Len(pieces) = 0 THEN <<>>
  ELSE IF Len(pieces) = 1 THEN pieces[1]
  ELSE pieces[1] \o <<"\n">> \o Lines(Tail(pieces))

ParseSources ==
  {Lines(pieces) : pieces \in UNION {[1..n -> ParsePieces] : n \in 0..MaxTokens}}

NotParsing ==
  CheckerUnchanged /\ FacadeUnchanged /\ TypesUnchanged /\ EmitterUnchanged
    /\ LexerUnchanged

InitParse ==
  /\ symbolTable = ContextTypes
  /\ customTypes = EmptyMap
  /\ currentFunctionIsAsync = FALSE
  /\ allowTopLevelAwait = TRUE
  /\ savedAsync = FALSE
  /\ pc = "parse"
  /\ body = <<>>
  /\ outcome = NoOutcome
  /\ before = [sym |-> ContextTypes, custom |-> EmptyMap, async |-> FALSE]
  /\ result = NoResult
  /\ source = NoSource
  /\ calls = 0
  /\ seen = EmptyMap
  /\ tyS = Unknown
  /\ tyT = Unknown
  /\ assignable = TRUE
  /\ EmitterConstructed
  /\ LexerConstructed
  /\ parserTokens \in {tokenize(s).tokens : s \in ParseSources}
  /\ parserPos = 0
  /\ parsedBody = <<>>
  /\ parseError = ""

\* the parser after a call of statement() that ended with s
ParserBecomes(s) ==
  /\ parserPos' = s.pos
  /\ parsedBody' = IF s.thrown THEN parsedBody ELSE Append(parsedBody, s.node)
  /\ parseError' = s.error
  /\ pc' = IF s.thrown THEN "parsefailed" ELSE "parse"

\* while (!isAtEnd()) body.push(statement())
ParseStatement ==
  /\ pc = "parse"
  /\ ~isAtEnd(parserTokens, parserPos)
  /\ ParserBecomes(statement(parserTokens, parserPos))
  /\ UNCHANGED parserTokens
  /\ NotParsing

\* return { type: 'Program', body }
EndParse ==
  /\ pc = "parse"
  /\ isAtEnd(parserTokens, parserPos)
  /\ pc' = "parsed"
  /\ UNCHANGED <<parserTokens, parserPos, parsedBody, parseError>>
  /\ NotParsing

NextParse == ParseStatement \/ EndParse

SpecParse == InitParse /\ [][NextParse]_vars

----------------------------------------------------------------------------
(* Properties of isAssignable (specification SpecTypes).                   *)

\* C11: Unknown is assignable in both directions: isAssignable(Unknown, T)
\* and isAssignable(T, Unknown) are true for every semantic type T, unions
\* (the empty union too) and types that contain unions included.
C11_UnknownBothWays ==
  (pc = "assigned" /\ (tyS = Unknown \/ tyT = Unknown)) => assignable

\* C11 witness: a union with a union among its members was found assignable
\* to Unknown, and the call was made with a non-Unknown source.
C11_Witness ==
  /\ pc = "assigned" /\ tyT = Unknown /\ assignable
  /\ tyS.kind = "union" /\ Len(tyS.types) = 2
  /\ \E i \in DOMAIN tyS.types : tyS.types[i] = [kind |-> "union", types |-> <<>>]

\* C12: union fan-out: for a union source and any target T,
\* isAssignable(A|B, T) is the conjunction of isAssignable over the members,
\* whatever the target is, the same union and Unknown included.
C12_UnionFanOut ==
  (pc = "assigned" /\ tyS.kind = "union")
  => (assignable <=> \A i \in DOMAIN tyS.types : isAssignable(tyS.types[i], tyT))

\* C12 witness: a two-member union was checked against itself, and a union
\* with one assignable and one unassignable member was rejected.
C12_Witness ==
  /\ pc = "assigned" /\ tyS.kind = "union" /\ Len(tyS.types) = 2
  /\ ~assignable
  /\ isAssignable(tyS.types[2], tyT) /\ ~isAssignable(tyS.types[1], tyT)

\* the same union as source and as target
C12_WitnessSameUnion ==
  /\ pc = "assigned" /\ tyS.kind = "union" /\ Len(tyS.types) = 2
  /\ tyT = tyS /\ assignable

----------------------------------------------------------------------------
(* for await (specification SpecCheck).                                    *)

\* the type of the iterable of the loop Last, in the state before the loop
IterableOfLast == inferExpression(BeforeState, Last.iterable)

IsPromiseOfArray(t) == t.kind = "promise" /\ t.resolveType.kind = "array"

\* C20: a for await loop is accepted only when its iterable has type
\* Promise<Array<E>> and the context is async, and then the loop variable is
\* bound to E (the body `return x` has type E); over an iterable of any
\* other type, a plain Array<E> included, checking fails with
\* "for await...of requires an async iterable (Promise<T[]>)".
C20_ForAwait ==
  (AfterStep /\ Last.type = "ForStatement" /\ Last.async
     /\ ~IterableOfLast.st.thrown)
  => IF IsPromiseOfArray(IterableOfLast.ty)
     THEN /\ ~outcome.thrown <=> before.async
          /\ ~outcome.thrown => outcome.type = IterableOfLast.ty.resolveType.elementType
     ELSE outcome.thrown /\ outcome.error = ForAwaitError

\* what the code does with a plain array: the loop is accepted and the loop
\* variable is bound to the element type
C20_PlainArrayAccepted ==
  /\ AfterStep /\ Last.type = "ForStatement" /\ Last.async
  /\ IterableOfLast.ty = Arr(TNumber)
  /\ ~outcome.thrown /\ outcome.type = TNumber

----------------------------------------------------------------------------
(* Scope discipline of the emitter (specification SpecEmit).               *)

\* An identifier occurrence that the emitter renders bare (without await)
\* at a point where no active scope declares it: how it occurs, and whether
\* the context is async at that point.
BareOccurrence(gs, name, how) ==
  [name |-> name, how |-> how, async |-> isInAsyncContext(gs)]

RECURSIVE Bare(_, _)

\* the root of the member chain node, as generateMemberAccess renders it
BareRoot(gs, node, isCall, forAssignment) ==
  LET root == memberRoot(node)
  IN IF root.type # "Identifier" THEN Bare(gs, root)
     ELSE IF /\ ~isDeclared(gs, root.name)
             /\ generateMemberAccess(gs, node, isCall, forAssignment)
                  = root.name \o partsText(memberParts(node))
     THEN {BareOccurrence(gs, root.name, "root")}
     ELSE {}

\* the bare undeclared occurrences in the text generateExpression(gs, node)
Bare(gs, node) ==
  LET all(nodes) == UNION {Bare(gs, nodes[i]) : i \in DOMAIN nodes}
  IN CASE node.type = "Identifier" ->
            IF ~isDeclared(gs, node.name) /\ generateExpression(gs, node) = node.name
            THEN {BareOccurrence(gs, node.name, "read")} ELSE {}
       [] node.type = "BinaryExpression" -> all(<<node.left, node.right>>)
       [] node.type = "UnaryExpression" -> all(<<node.operand>>)
       [] node.type = "CallExpression" ->
            all(node.arguments) \cup
              (IF node.callee.type = "MemberExpression"
               THEN BareRoot(gs, node.callee, TRUE, FALSE)
               ELSE IF node.callee.type # "Identifier" THEN Bare(gs, node.callee)
               ELSE IF /\ ~isDeclared(gs, node.callee.name)
                       /\ generateExpression(gs, Call(node.callee, <<>>))
                            = node.callee.name \o "()"
               THEN {BareOccurrence(gs, node.callee.name, "callee")}
               ELSE {})
       [] node.type = "MemberExpression" -> BareRoot(gs, node, FALSE, FALSE)
       [] node.type = "ArrayExpression" -> all(node.elements)
       [] node.type = "ObjectExpression" ->
            UNION {Bare(gs, node.properties[i].value) : i \in DOMAIN node.properties}
       [] node.type = "ConditionalExpression" ->
            all(<<node.test, node.consequent, node.alternate>>)
       [] node.type = "ArrowFunction" ->
            Bare(pushFunction(gs, {node.params[i] : i \in DOMAIN node.params}, node.async),
                 node.body)
       [] node.type = "AssignmentExpression" ->
            all(<<node.value>>) \cup
              (IF node.target.type = "MemberExpression"
               THEN BareRoot(gs, node.target, FALSE, TRUE)
               ELSE IF node.target.type # "Identifier" THEN Bare(gs, node.target)
               ELSE IF /\ ~isDeclared(gs, node.target.name)
                       /\ generateExpression(gs, Assign(node.target, One))
                            = node.target.name \o " = 1"
               THEN {BareOccurrence(gs, node.target.name, "target")}
               ELSE {})
       [] node.type = "AwaitExpression" ->
            IF node.argument.type = "Identifier" THEN {} ELSE Bare(gs, node.argument)
       [] OTHER -> {}

RECURSIVE BareInStatements(_, _)

\* the bare undeclared occurrences in the text generateStatement(gs, node)
BareInStatement(gs, node) ==
  CASE node.type = "VariableDeclaration" -> Bare(declare(gs, node.identifier), node.value)
    [] node.type = "FunctionDeclaration" ->
         BareInStatements(
           pushFunction(declare(gs, node.name),
                        {node.params[i].name : i \in DOMAIN node.params}, node.async),
           node.body)
    [] node.type = "ReturnStatement" ->
         IF node.value = NoNode THEN {} ELSE Bare(gs, node.value)
    [] node.type = "IfStatement" ->
         Bare(gs, node.condition) \cup BareInStatements(gs, node.consequent) \cup
           (IF node.alternate = NoAlternate THEN {}
            ELSE BareInStatements(generateStatements(gs, node.consequent, <<>>).gs,
                                  node.alternate))
    [] node.type = "ForStatement" ->
         Bare(gs, node.iterable) \cup
           BareInStatements(GenState(Append(gs.scopes, {node.variable}),
                                     gs.asyncContextStack),
                            node.body)
    [] node.type = "ExpressionStatement" -> Bare(gs, node.expression)
    [] OTHER -> {}

BareInStatements(gs, stmts) ==
  IF Len(stmts) = 0 THEN {}
  ELSE BareInStatement(gs, stmts[1])
         \cup BareInStatements(generateStatement(gs, stmts[1]).gs, Tail(stmts))

\* the bare undeclared occurrences in the statements emitted so far
BareEmitted ==
  BareInStatements(GenState(<<{}>>, <<TRUE>>), SubSeq(program.body, 1, Len(emitted)))

\* C13 as stated: in the emitted code, every identifier occurrence rendered
\* without await (bare read, member-chain root, callee, assignment target)
\* is declared in a scope that is active at that point.
C13_AsStated == pc \in {"emit", "generated"} => BareEmitted = {}

\* C13: every identifier occurrence rendered without await as a read, as a
\* member-chain root or as a callee in an async context is declared in an
\* active scope; an identifier that no active scope declares is rendered
\* bare only as the target of an assignment or in a context that is not
\* async.
C13_ScopeDiscipline ==
  pc \in {"emit", "generated"}
  => \A o \in BareEmitted : o.how = "target" \/ ~o.async

\* C13 witness: a program was emitted in which a declared identifier is read
\* bare at top level and an undeclared one is read bare in a function that
\* is not async.
C13_Witness ==
  /\ pc = "generated"
  /\ output = "let x = 1;\nfunction f() {\nreturn p;\n}"
  /\ BareEmitted = {[name |-> "p", how |-> "read", async |-> FALSE]}

----------------------------------------------------------------------------
(* Properties of the lexer (specification SpecLex).                        *)

NewlinesAt(s) == {i \in DOMAIN s : s[i] = "\n"}

\* the number of characters of s after its last newline
AfterLastNewline(s) ==
  IF NewlinesAt(s) = {} THEN Len(s)
  ELSE Len(s) - (CHOOSE i \in NewlinesAt(s) : \A j \in NewlinesAt(s) : j <= i)

EOFsAt(toks) == {i \in DOMAIN toks : toks[i].type = "EOF"}

\* C14: when tokenize returns, the token sequence holds exactly one EOF
\* token, it is the last one, its line is 1 + the number of newlines of the
\* source and its column is 1 + the number of characters after the last
\* newline, string literals and comments included.
C14_EOFToken ==
  pc = "tokenized"
  => /\ EOFsAt(tokens) = {Len(tokens)}
     /\ tokens[Len(tokens)].line = 1 + Cardinality(NewlinesAt(input))
     /\ tokens[Len(tokens)].column = 1 + AfterLastNewline(input)

\* what the code does with a newline inside a string literal: the line
\* counter does not move and the column keeps counting
C14_NewlineInString ==
  /\ pc = "tokenized"
  /\ input = <<"\"", "\n", "\"">>
  /\ tokens = <<Token("STRING", "\n", 1, 1), Token("EOF", "", 1, 4)>>

\* the last turn of the loop called nextToken, at tokenStart, and it
\* returned the last token
TokenMade == pc = "lex" /\ Len(tokens) > 0

LastToken == tokens[Len(tokens)]

\* the text of the longest run of letters, digits and `_` from position i
RECURSIVE RunText(_, _)
RunText(s, i) ==
  IF i < Len(s) /\ isAlphaNumeric(s[i + 1]) THEN s[i + 1] \o RunText(s, i + 1) ELSE ""

\* C15: a maximal run [A-Za-z_][A-Za-z0-9_]* lexes to one token whose value
\* is the text of the run and whose kind is the keyword kind of a reserved
\* word and IDENTIFIER for every other text.
C15_IdentifierOrKeyword ==
  (TokenMade /\ isAlpha(input[tokenStart + 1]))
  => /\ LastToken.value = RunText(input, tokenStart)
     /\ LastToken.type = IF LastToken.value \in DOMAIN keywords
                         THEN keywords[LastToken.value] ELSE "IDENTIFIER"

\* what the code does with a name of Object.prototype: the kind of the token
\* is the inherited property, not IDENTIFIER
C15_InheritedName ==
  /\ TokenMade /\ input = <<"v", "a", "l", "u", "e", "O", "f">>
  /\ LastToken.value = "valueOf" /\ LastToken.type # "IDENTIFIER"

\* the last turn of the loop called nextToken at tokenStart
NextTokenCalled == TokenMade \/ pc = "lexfailed"

\* the two characters at position i (the second is "undefined" past the end)
PairAt(s, i) == <<s[i + 1], charAt(s, i + 1)>>

OperatorPairs ==
  <<"=", "=">> :> "EQUALS_EQUALS" @@ <<"!", "=">> :> "BANG_EQUALS"
    @@ <<"<", "=">> :> "LESS_EQUALS" @@ <<">", "=">> :> "GREATER_EQUALS"
    @@ <<"&", "&">> :> "AMPERSAND_AMPERSAND" @@ <<"|", "|">> :> "PIPE_PIPE"
    @@ <<"=", ">">> :> "FAT_ARROW" @@ <<"-", ">">> :> "RETURN_ARROW"

UnexpectedCharacter(char) ==
  "Unexpected character '" \o char \o "' at line " \o ToString(line)
    \o ", column " \o ToString(column)

\* C16: the two-character operators == != <= >= && || => -> each lex to one
\* token of the two-character kind; a single | lexes to PIPE; a single &
\* not followed by & makes no token and fails with "Unexpected character".
C16_TwoCharacterOperators ==
  /\ (TokenMade /\ PairAt(input, tokenStart) \in DOMAIN OperatorPairs)
     => /\ LastToken.type = OperatorPairs[PairAt(input, tokenStart)]
        /\ LastToken.value = input[tokenStart + 1] \o input[tokenStart + 2]
  /\ (TokenMade /\ input[tokenStart + 1] = "|" /\ charAt(input, tokenStart + 1) # "|")
     => LastToken.type = "PIPE" /\ LastToken.value = "|"
  /\ (NextTokenCalled /\ input[tokenStart + 1] = "&"
        /\ charAt(input, tokenStart + 1) # "&")
     => /\ pc = "lexfailed" /\ lexError = UnexpectedCharacter("&")
        /\ pos = tokenStart

\* C16 witness: `&&` after another token made one token, where a lone `&`
\* would have failed.
C16_Witness ==
  /\ TokenMade /\ Len(tokens) = 2
  /\ PairAt(input, tokenStart) = <<"&", "&">>
  /\ LastToken = Token("AMPERSAND_AMPERSAND", "&&", 1, tokenStart + 1)

\* a lone & failed
C16_WitnessLoneAmpersand ==
  /\ pc = "lexfailed" /\ input = <<"&", "|", "|">>
  /\ tokens = <<>> /\ lexError = "Unexpected character '&' at line 1, column 1"

\* the text of the longest run of digits from position i, and its length
RECURSIVE DigitRun(_, _)
DigitRun(s, i) ==
  IF i < Len(s) /\ isDigit(s[i + 1]) THEN s[i + 1] \o DigitRun(s, i + 1) ELSE ""

RECURSIVE DigitCount(_, _)
DigitCount(s, i) ==
  IF i < Len(s) /\ isDigit(s[i + 1]) THEN 1 + DigitCount(s, i + 1) ELSE 0

\* digits, then `.` and digits when a digit follows the `.`
NumberText(s, i) ==
  DigitRun(s, i)
    \o (IF /\ charAt(s, i + DigitCount(s, i)) = "."
           /\ isDigit(charAt(s, i + DigitCount(s, i) + 1))
        THEN "." \o DigitRun(s, i + DigitCount(s, i) + 1)
        ELSE "")

\* C17: a number lexes to one NUMBER token whose value is its digits with an
\* optional decimal part; a - followed by a digit is part of the NUMBER
\* token, whatever precedes it; a - followed by anything else but > lexes
\* to MINUS.
C17_Numbers ==
  /\ (TokenMade /\ isDigit(input[tokenStart + 1]))
     => /\ LastToken.type = "NUMBER"
        /\ LastToken.value = NumberText(input, tokenStart)
  /\ (TokenMade /\ input[tokenStart + 1] = "-")
     => IF isDigit(charAt(input, tokenStart + 1))
        THEN /\ LastToken.type = "NUMBER"
             /\ LastToken.value = "-" \o NumberText(input, tokenStart + 1)
        ELSE charAt(input, tokenStart + 1) # ">"
               => LastToken.type = "MINUS" /\ LastToken.value = "-"

\* C17 witness: a negative literal right after a number
C17_Witness ==
  /\ TokenMade
  /\ input = <<"1", "-", "1">>
  /\ tokens = <<Token("NUMBER", "1", 1, 1), Token("NUMBER", "-1", 1, 3)>>

\* The source without the text of its comments: from a // outside a string
\* literal up to, not including, the next newline.  mode is "code",
\* "comment", or the quote character of the string literal being read.
RECURSIVE StripFrom(_, _, _)
StripFrom(s, i, mode) ==
  IF i > Len(s) THEN <<>>
  ELSE IF mode = "comment"
  THEN IF s[i] = "\n" THEN <<s[i]>> \o StripFrom(s, i + 1, "code")
       ELSE StripFrom(s, i + 1, "comment")
  ELSE IF mode = "code"
  THEN IF s[i] \in {"\"", "'"} THEN <<s[i]>> \o StripFrom(s, i + 1, s[i])
       ELSE IF s[i] = "/" /\ i < Len(s) /\ s[i + 1] = "/"
       THEN StripFrom(s, i + 2, "comment")
       ELSE <<s[i]>> \o StripFrom(s, i + 1, "code")
  ELSE IF s[i] = "\\" /\ i < Len(s)
  THEN <<s[i], s[i + 1]>> \o StripFrom(s, i + 2, mode)
  ELSE <<s[i]>> \o StripFrom(s, i + 1, IF s[i] = mode THEN "code" ELSE mode)

Strip(s) == StripFrom(s, 1, "code")

HasComment(s) == Strip(s) # s

\* C18 as stated: the tokens of a source with a comment are the tokens of
\* the source without the text of the comment.
C18_AsStated ==
  (pc = "tokenized" /\ HasComment(input))
  => tokens = tokenize(Strip(input)).tokens

\* toks is t.tokens but for the column of the last token, which is larger
\* by shift
SameButLastColumn(toks, t, shift) ==
  /\ ~t.thrown
  /\ Len(toks) = Len(t.tokens)
  /\ \A i \in 1..(Len(toks) - 1) : toks[i] = t.tokens[i]
  /\ toks[Len(toks)] = [t.tokens[Len(toks)] EXCEPT !.column = @ + shift]

\* C18: no character of a comment contributes to a token, and the tokens
\* are those of the source without the text of the comment, except that
\* the column of the EOF token counts the characters of a comment on the
\* last line of the source.
C18_CommentsSkipped ==
  (pc = "tokenized" /\ HasComment(input))
  => SameButLastColumn(tokens, tokenize(Strip(input)),
                       AfterLastNewline(input) - AfterLastNewline(Strip(input)))

\* C18 witness: a comment holding a keyword between two tokens on two lines
C18_Witness ==
  /\ pc = "tokenized"
  /\ input = <<"x", "/", "/", "l", "e", "t", "\n", "1">>
  /\ tokens = <<Token("IDENTIFIER", "x", 1, 1), Token("NUMBER", "1", 2, 1),
                Token("EOF", "", 2, 2)>>


----------------------------------------------------------------------------
(* Properties of the parser (specification SpecParse).                     *)

\* the token the parser was at when parse() threw: this.peek()
Offending == peekToken(parserTokens, parserPos)

\* what the messages of the parser's Errors begin with
ParserMessages ==
  {"Expected type name", "Expected = after type name", "Expected interface name",
   "Expected { after interface name", "Expected property name",
   "Expected : after property name", "Expected } after interface body",
   "Expected variable name", "Expected = after variable name",
   "Expected function name", "Expected ( after function name",
   "Expected parameter name", "Expected ) after parameters",
   "Expected { before function body", "Expected } after function body",
   "Expected { after if condition", "Expected } after if body",
   "Expected { after else", "Expected } after else body",
   "Expected variable name in for loop", "Expected \"in\" in for loop",
   "Expected { after for header", "Expected } after for body",
   "Expected < after Promise", "Expected > after Promise type",
   "Expected ] after [", "Expected }", "Expected type annotation",
   "Expected : in ternary expression", "Expected ) after arguments",
   "Expected ] after index", "Expected parameter",
   "Expected => after async parameters", "Expected ) after expression",
   "Expected ] after array elements", "Expected property key",
   "Expected : after property key", "Expected } after object properties",
   "Expected \"fn\" after \"async\"", "Expected => after async parameter",
   "Expected identifier or ( after async",
   "Complex computed member access not yet supported",
   "Unexpected token: " \o Offending.type}

\* the message holds the text "at line N", N the line of the token
CarriesLine(message, token) ==
  \E start \in ParserMessages : \E end \in {"", ", got " \o token.type} :
    message = start \o " at line " \o ToString(token.line) \o end

\* C19: every Error the parser raises has the text "at line N" in its
\* message, N the line of the offending token, whichever the failure: a
\* failed consume, an unexpected token in primary, a missing type
\* annotation, `async` not followed by `fn`, an identifier or `(`, a missing
\* `=>` after an async parameter, a computed member index that is no literal.
C19_ErrorsCarryLine ==
  pc = "parsefailed" => CarriesLine(parseError, Offending)

\* the four Errors of the parser that are made of a fixed text
LinelessMessages ==
  {"Expected \"fn\" after \"async\"", "Expected => after async parameter",
   "Expected identifier or ( after async",
   "Complex computed member access not yet supported"}

\* every other Error of the parser does carry the line of the offending token
C19_OtherErrorsCarryLine ==
  pc = "parsefailed" =>
    \/ CarriesLine(parseError, Offending)
    \/ parseError \in LinelessMessages

----------------------------------------------------------------------------
(* Await placement for member chains (specification SpecEmit).             *)

\* a member chain whose root is an identifier
IsChain(e) == e.type = "MemberExpression" /\ memberRoot(e).type = "Identifier"

\* the chain of an expression that reads a chain or calls one
ChainOf(e) == IF e.type = "CallExpression" THEN e.callee ELSE e

IsChainSite(e) ==
  \/ IsChain(e)
  \/ e.type = "CallExpression" /\ IsChain(e.callee)

\* the chain is one an await is due for: the context is async and no active
\* scope declares the root
AwaitDue(gs, chain) ==
  isInAsyncContext(gs) /\ ~isDeclared(gs, memberRoot(chain).name)

EndsInIndex(chain) == chain.computed /\ chain.property \in NumericStrings
EndsInArrayMethod(chain) == ~chain.computed /\ chain.property \in arrayMethods

\* the text of a chain without any await
ChainText(chain) == memberRoot(chain).name \o partsText(memberParts(chain))

\* the text the chain of a site is to have: one await, placed on the chain
\* before a final array method that is called, else on the chain before a
\* final numeric index, else on the root; no await when none is due
Placed(gs, chain, isCallee) ==
  IF ~AwaitDue(gs, chain) THEN ChainText(chain)
  ELSE IF isCallee /\ EndsInArrayMethod(chain)
  THEN "(await " \o ChainText(chain.object) \o ")." \o chain.property
  ELSE IF EndsInIndex(chain)
  THEN "(await " \o ChainText(chain.object) \o ")[" \o chain.property \o "]"
  ELSE "(await " \o memberRoot(chain).name \o ")" \o partsText(memberParts(chain))

argumentsText(gs, e) ==
  Join([i \in DOMAIN e.arguments |-> generateExpression(gs, e.arguments[i])], ", ")

SiteText(gs, e) ==
  IF e.type = "CallExpression"
  THEN Placed(gs, e.callee, TRUE) \o "(" \o argumentsText(gs, e) \o ")"
  ELSE Placed(gs, e, FALSE)

\* the statement generateStatement has just rendered, and its text
LastStatement == program.body[Len(emitted)]
LastEmitted == emitted[Len(emitted)]
JustEmitted == pc = "emit" /\ Len(emitted) > 0

\* a statement that is `return site;` or `site;`
SiteOf(stmt) ==
  IF stmt.type = "ReturnStatement" THEN stmt.value
  ELSE IF stmt.type = "ExpressionStatement" THEN stmt.expression
  ELSE NoNode

StatementText(gs, stmt) ==
  IF stmt.type = "ReturnStatement" THEN "return " \o SiteText(gs, stmt.value) \o ";"
  ELSE SiteText(gs, stmt.expression) \o ";"

\* a function declaration whose body is one such statement
IsSiteFunction(stmt) ==
  /\ stmt.type = "FunctionDeclaration"
  /\ Len(stmt.body) = 1
  /\ IsChainSite(SiteOf(stmt.body[1]))

InsideFunction(stmt) ==
  pushFunction(Generator, {stmt.params[i].name : i \in DOMAIN stmt.params}, stmt.async)

FunctionText(stmt) ==
  (IF stmt.async THEN "async " ELSE "") \o "function " \o stmt.name \o "("
    \o Join([i \in DOMAIN stmt.params |-> stmt.params[i].name], ", ") \o ") {\n"
    \o StatementText(InsideFunction(stmt), stmt.body[1]) \o "\n}"

C21_WitnessMethod ==
  /\ JustEmitted
  /\ LastEmitted = "(await x.a).find(await p);"

C21_WitnessPlain ==
  /\ JustEmitted
  /\ LastEmitted = "return (await o).a.b;"

C21_WitnessDeclared ==
  /\ JustEmitted
  /\ LastEmitted \in {"return x.a[0];", "x.a.find(await p);"}

C21_WitnessNotAsync ==
  /\ JustEmitted
  /\ LastEmitted = "function k() {\nreturn o.a[0];\n}"

----------------------------------------------------------------------------
(* inferConditionalExpression as a function of the types of its two arms   *)
(* (specification SpecCond): a checker whose context binds a and b to the  *)
(* two types infers `true ? a : b`.                                        *)

ArmsContext(s, t) == [n \in {"a", "b"} |-> IF n = "a" THEN s ELSE t]

ConditionalOfArms == Cond(True, Id("a"), Id("b"))

InitCond ==
  /\ symbolTable \in {ArmsContext(pair[1], pair[2]) : pair \in TypePairs}
  /\ customTypes = EmptyMap
  /\ currentFunctionIsAsync = FALSE
  /\ allowTopLevelAwait = TRUE
  /\ savedAsync = FALSE
  /\ pc = "cond"
  /\ body = <<>>
  /\ outcome = NoOutcome
  /\ before = [sym |-> symbolTable, custom |-> EmptyMap, async |-> FALSE]
  /\ result = NoResult
  /\ source = NoSource
  /\ calls = 0
  /\ seen = EmptyMap
  /\ tyS = Unknown
  /\ tyT = Unknown
  /\ assignable = TRUE
  /\ EmitterConstructed
  /\ LexerConstructed
  /\ ParserConstructed

\* this.inferExpression(node) of the conditional expression
InferConditional ==
  /\ pc = "cond"
  /\ CheckerBecomes(inferConditionalExpression(Checker, ConditionalOfArms))
  /\ pc' = "inferred"
  /\ UNCHANGED <<allowTopLevelAwait, savedAsync, body, before>>
  /\ FacadeUnchanged /\ TypesUnchanged /\ EmitterUnchanged /\ LexerUnchanged /\ ParserUnchanged

NextCond == InferConditional

SpecCond == InitCond /\ [][NextCond]_vars

\* the types of the two arms
ConsequentType == before.sym["a"]
AlternateType == before.sym["b"]

\* type equality as it is specified: by kind, primitives by name, arrays and
\* promises by their inner type, object types by their name when they have
\* one, every other type non-equal
RECURSIVE EqualAsSpecified(_, _)
EqualAsSpecified(a, b) ==
  IF a.kind # b.kind THEN FALSE
  ELSE CASE a.kind = "primitive" -> a.name = b.name
         [] a.kind = "array" -> EqualAsSpecified(a.elementType, b.elementType)
         [] a.kind = "promise" -> EqualAsSpecified(a.resolveType, b.resolveType)
         [] a.kind = "object" -> a.name # "" /\ a.name = b.name
         [] OTHER -> FALSE

\* C22: the type of a conditional expression is T when both arms have equal
\* types T, otherwise the Union of the two arm types in order; equality is by
\* kind, primitives by name, arrays and promises by recursive equality of
\* the inner type, named object types by name.
C22_ConditionalType ==
  pc = "inferred" =>
    outcome.type = IF EqualAsSpecified(ConsequentType, AlternateType)
                   THEN ConsequentType
                   ELSE Union(<<ConsequentType, AlternateType>>)

\* two arms of one named object type
SameNamedObject(a, b) == a.kind = "object" /\ a.name # "" /\ a.name = b.name

RECURSIVE HoldsNamedObjects(_, _)
HoldsNamedObjects(a, b) ==
  IF a.kind # b.kind THEN FALSE
  ELSE CASE a.kind = "array" -> HoldsNamedObjects(a.elementType, b.elementType)
         [] a.kind = "promise" -> HoldsNamedObjects(a.resolveType, b.resolveType)
         [] OTHER -> SameNamedObject(a, b)

\* what the checker does: the claim's type for all arms but those that are,
\* or are arrays or promises of, one named object type; for these the Union
C22_ConditionalTypeButObjects ==
  pc = "inferred" =>
    outcome.type = IF EqualAsSpecified(ConsequentType, AlternateType)
                      /\ ~HoldsNamedObjects(ConsequentType, AlternateType)
                   THEN ConsequentType
                   ELSE Union(<<ConsequentType, AlternateType>>)

C22_EqualArms ==
  /\ pc = "inferred"
  /\ ConsequentType = Arr(Promise(TNumber))
  /\ outcome.type = Arr(Promise(TNumber))

----------------------------------------------------------------------------
(* Postfix operators (specification SpecPostfix): the parser is run on the *)
(* sources made of the primary expression x and up to MaxSuffixes postfix  *)
(* operators.                                                              *)

MaxSuffixes == 3

PostfixPieces == {<<".", "x">>, <<"[", "1", "]">>, <<"(", ")">>, <<"(", "x", ")">>}

RECURSIVE Concat(_)
Concat(pieces) == IF Len(pieces) = 0 THEN <<>> ELSE pieces[1] \o Concat(Tail(pieces))

PostfixSources ==
  {<<"x">> \o Concat(pieces) :
     pieces \in UNION {[1..n -> PostfixPieces] : n \in 0..MaxSuffixes}}

InitPostfix ==
  /\ symbolTable = ContextTypes
  /\ customTypes = EmptyMap
  /\ currentFunctionIsAsync = FALSE
  /\ allowTopLevelAwait = TRUE
  /\ savedAsync = FALSE
  /\ pc = "parse"
  /\ body = <<>>
  /\ outcome = NoOutcome
  /\ before = [sym |-> ContextTypes, custom |-> EmptyMap, async |-> FALSE]
  /\ result = NoResult
  /\ source = NoSource
  /\ calls = 0
  /\ seen = EmptyMap
  /\ tyS = Unknown
  /\ tyT = Unknown
  /\ assignable = TRUE
  /\ EmitterConstructed
  /\ LexerConstructed
  /\ parserTokens \in {tokenize(s).tokens : s \in PostfixSources}
  /\ parserPos = 0
  /\ parsedBody = <<>>
  /\ parseError = ""

SpecPostfix == InitPostfix /\ [][NextParse]_vars

\* the tree of the expression e followed by the postfix operators that start
\* at token i, nested left to right
RECURSIVE Suffixed(_, _, _)
Suffixed(ts, i, e) ==
  CASE ts[i].type = "DOT" -> Suffixed(ts, i + 2, Member(e, ts[i + 1].value, FALSE))
    [] ts[i].type = "LBRACKET" -> Suffixed(ts, i + 3, Member(e, ts[i + 1].value, TRUE))
    [] ts[i].type = "LPAREN" ->
         IF ts[i + 1].type = "RPAREN" THEN Suffixed(ts, i + 2, Call(e, <<>>))
         ELSE Suffixed(ts, i + 3, Call(e, <<Id(ts[i + 1].value)>>))
    [] OTHER -> e

ParseEnded == pc \in {"parsed", "parsefailed"}

OneTree ==
  /\ pc = "parsed"
  /\ parsedBody = <<ExprStmt(Suffixed(parserTokens, 2, Id(parserTokens[1].value)))>>

\* C23: any sequence of .name, [literal] and (args) suffixes after a primary
\* expression, in any order, is consumed into one expression tree nested
\* left to right.
C23_PostfixInterleaved == ParseEnded => OneTree

\* a member suffix comes after a call suffix
MemberAfterCall ==
  \E i \in DOMAIN parserTokens :
    /\ parserTokens[i].type = "RPAREN"
    /\ parserTokens[i + 1].type \in {"DOT", "LBRACKET"}

\* what the parser does: the suffixes make one tree exactly when no member
\* suffix comes after a call suffix
C23_MembersThenCalls == ParseEnded => (OneTree <=> ~MemberAfterCall)

\* x.x()(x): calls after a member suffix are consumed into one tree
C23_CallAfterMember ==
  /\ OneTree
  /\ parsedBody = <<ExprStmt(Call(Call(Member(Id("x"), "x", FALSE), <<>>), <<Id("x")>>))>>

----------------------------------------------------------------------------
(* Scopes of the checker (specification SpecCheck); before holds the       *)
(* checker's fields as they were when the last statement was entered.      *)

\* every name but those of except is bound as it was before the statement
ScopeClosed(except) ==
  \A n \in (DOMAIN symbolTable \cup DOMAIN before.sym) \ except :
    Binding(symbolTable, n) = Binding(before.sym, n)

ArrowDecl == Last.type = "VariableDeclaration" /\ Last.value.type = "ArrowFunction"

\* the bindings after the function declaration, the arrow function of a
\* variable declaration or the for loop Last, when thrown tells how it ended
Bracketed(thrown) ==
  /\ Last.type = "ForStatement" => ScopeClosed({})
  /\ Last.type = "FunctionDeclaration" =>
       ScopeClosed(IF thrown THEN {} ELSE {Last.name})
  /\ ArrowDecl => ScopeClosed({Last.identifier})

\* C24: whenever checking of a function declaration, an arrow function or a
\* for loop ends, by returning or by throwing, the symbol table holds no
\* binding introduced inside it (parameters, loop variable, names assigned
\* in the body) and every shadowed outer binding has its previous type
\* again; the only binding a function declaration adds is its own name.
C24_ScopeBracketing == AfterStep => Bracketed(outcome.thrown)

\* what the checker does: the scope is closed when the node ends by returning
C24_ScopeBracketingOnReturn == (AfterStep /\ ~outcome.thrown) => Bracketed(FALSE)

\* a for loop whose body bound x has returned, and x is unbound again
C24_LoopReturned ==
  /\ AfterStep /\ ~outcome.thrown
  /\ Last.type = "ForStatement"
  /\ "x" \notin DOMAIN symbolTable

----------------------------------------------------------------------------
(* The async context of the checker (specification SpecCheck).             *)

FunctionDecl == Last.type = "FunctionDeclaration"

\* the function or arrow function that the statement Last declares, if any
DeclaredNode == IF FunctionDecl THEN Last ELSE Last.value

DeclaresNode == FunctionDecl \/ ArrowDecl

\* the value an await is given directly in the body of the node
AwaitsInBody(node) ==
  IF node.type = "ArrowFunction" THEN node.body.type = "AwaitExpression"
  ELSE \E i \in DOMAIN node.body :
         /\ node.body[i].type = "ReturnStatement"
         /\ node.body[i].value.type = "AwaitExpression"

\* C25: while the body of a function declaration or arrow function is being
\* checked, the checker's async flag is that node's own async flag (an await
\* in the body is an error exactly when the node is not async, whatever the
\* context around it); when the node is left, the flag has the value it had
\* on entry; after check(program) has ended, normally or by an error, the
\* flag has the value it had before the call.
C25_AsyncContext ==
  /\ (AfterStep /\ FunctionDecl) =>
       /\ functionScope(BeforeState, Last).async = Last.async
       /\ CollectedOfLast.st.async = Last.async
  /\ (AfterStep /\ DeclaresNode /\ AwaitsInBody(DeclaredNode)) =>
       ((outcome.thrown /\ outcome.error = AwaitError) <=> ~DeclaredNode.async)
  /\ (AfterStep /\ DeclaresNode /\ ~outcome.thrown) =>
       currentFunctionIsAsync = before.async
  /\ pc \in {"done", "returned"} => currentFunctionIsAsync = savedAsync

\* C25 witness: an async function whose body awaits has been checked at a
\* top level that is not async; the await was accepted and the flag is the
\* top level's again
C25_Witness ==
  /\ AfterStep /\ FunctionDecl /\ ~outcome.thrown
  /\ Last.async /\ AwaitsInBody(Last)
  /\ ~before.async
  /\ ~currentFunctionIsAsync

\* check has ended by an error raised in a non-async function, under a top
\* level that is async, and the flag is what it was before the call
C25_EndedByError ==
  /\ pc = "done" /\ outcome.error = AwaitError
  /\ FunctionDecl /\ ~Last.async /\ before.async
  /\ currentFunctionIsAsync = savedAsync

----------------------------------------------------------------------------
(* The _type field of object literals (specification SpecEmit).            *)

\* the statement is `let/const name: N = { ... }`
TypedLiteralDecl(stmt) ==
  /\ stmt.type = "VariableDeclaration"
  /\ stmt.value.type = "ObjectExpression"
  /\ stmt.typeAnnotation.type = "TypeReference"

\* the fields of the literal that the declaration Last emitted
EmittedFields == objectFields(Generator, LastStatement.value, LastStatement.typeAnnotation.name)

TypeFields(fields) == {i \in DOMAIN fields : fields[i].key = "_type"}

\* the emitted statement is the declaration of the literal made of fields
EmitsLiteral(fields) ==
  LastEmitted = (IF LastStatement.constant THEN "const" ELSE "let") \o " "
                  \o LastStatement.identifier \o " = " \o literalText(fields) \o ";"

\* the emitted literal: _type: "N" and then the source's fields in their
\* order, or the source's fields alone when one of them is _type
InjectedOrDeclared ==
  /\ EmitsLiteral(EmittedFields)
  /\ EmittedFields =
       IF hasExplicitTypeProp(LastStatement.value)
       THEN sourceFields(Generator, LastStatement.value)
       ELSE <<[key |-> "_type", text |-> "\"" \o LastStatement.typeAnnotation.name \o "\""]>>
              \o sourceFields(Generator, LastStatement.value)

\* C26 as stated: when a variable declaration has a Reference annotation
\* named N and its value is an object literal, the emitted literal starts
\* with the field _type: "N" followed by the literal's fields in source
\* order, unless the literal already declares a _type field, in which case
\* nothing is injected; the emitted literal never contains two _type fields.
C26_AsStated ==
  (JustEmitted /\ TypedLiteralDecl(LastStatement)) =>
    /\ InjectedOrDeclared
    /\ Cardinality(TypeFields(EmittedFields)) <= 1

\* C26: when a variable declaration has a Reference annotation named N and
\* its value is an object literal, the emitted literal starts with the field
\* _type: "N" followed by the literal's fields in source order, unless the
\* literal already declares a _type field, in which case nothing is injected;
\* the emitted literal has as many _type fields as the source literal
\* declares, and one when the source literal declares none.
C26_TypeInjection ==
  (JustEmitted /\ TypedLiteralDecl(LastStatement)) =>
    /\ InjectedOrDeclared
    /\ Cardinality(TypeFields(EmittedFields)) =
         IF hasExplicitTypeProp(LastStatement.value)
         THEN Cardinality(TypeFields(LastStatement.value.properties))
         ELSE 1

\* C26 witness: the field was injected before the two fields of a literal
C26_Witness ==
  /\ JustEmitted /\ TypedLiteralDecl(LastStatement)
  /\ LastEmitted = "const s = { _type: \"T\", b: 1, a: x };"

\* a literal that declares _type is emitted as it is
C26_Declared ==
  /\ JustEmitted /\ TypedLiteralDecl(LastStatement)
  /\ LastEmitted = "let s = { a: 1, _type: \"a\" };"

----------------------------------------------------------------------------
(* The emitted text as the emitter's rules give it (specification          *)
(* SpecEmit): every statement and expression rendered conventionally, with *)
(* an await only where the source has one and at the identifiers that no   *)
(* active scope declares, in an async context.                             *)

Due(gs, name) == isInAsyncContext(gs) /\ ~isDeclared(gs, name)

\* an identifier as a callee or as the root of an assignment's target
AwaitedBase(gs, name) == IF Due(gs, name) THEN "(await " \o name \o ")" ELSE name

RECURSIVE Rendered(_, _)

RenderedList(gs, nodes) == Join([i \in DOMAIN nodes |-> Rendered(gs, nodes[i])], ", ")

RenderedChain(gs, chain, isCallee, isTarget) ==
  IF ~IsChain(chain)
  THEN "(" \o Rendered(gs, memberRoot(chain)) \o ")" \o partsText(memberParts(chain))
  ELSE IF isTarget
  THEN AwaitedBase(gs, memberRoot(chain).name) \o partsText(memberParts(chain))
  ELSE Placed(gs, chain, isCallee)

RenderedFields(gs, node) ==
  [i \in DOMAIN node.properties |->
     [key |-> node.properties[i].key, text |-> Rendered(gs, node.properties[i].value)]]

Rendered(gs, node) ==
  CASE node.type = "Literal" ->
         IF node.valueType = "string" THEN "\"" \o node.value \o "\"" ELSE node.value
    [] node.type = "Identifier" ->
         IF Due(gs, node.name) THEN "await " \o node.name ELSE node.name
    [] node.type = "BinaryExpression" ->
         "(" \o Rendered(gs, node.left) \o " " \o node.operator \o " "
             \o Rendered(gs, node.right) \o ")"
    [] node.type = "UnaryExpression" -> node.operator \o Rendered(gs, node.operand)
    [] node.type = "CallExpression" ->
         (CASE node.callee.type = "MemberExpression" ->
                 RenderedChain(gs, node.callee, TRUE, FALSE)
            [] node.callee.type = "Identifier" -> AwaitedBase(gs, node.callee.name)
            [] OTHER -> Rendered(gs, node.callee))
           \o "(" \o RenderedList(gs, node.arguments) \o ")"
    [] node.type = "MemberExpression" -> RenderedChain(gs, node, FALSE, FALSE)
    [] node.type = "ArrayExpression" -> "[" \o RenderedList(gs, node.elements) \o "]"
    [] node.type = "ObjectExpression" -> literalText(RenderedFields(gs, node))
    [] node.type = "ConditionalExpression" ->
         "(" \o Rendered(gs, node.test) \o " ? " \o Rendered(gs, node.consequent)
             \o " : " \o Rendered(gs, node.alternate) \o ")"
    [] node.type = "ArrowFunction" ->
         (IF node.async THEN "async " ELSE "") \o "(" \o Join(node.params, ", ")
           \o ") => "
           \o Rendered(pushFunction(gs, {node.params[i] : i \in DOMAIN node.params},
                                    node.async),
                       node.body)
    [] node.type = "AssignmentExpression" ->
         (CASE node.target.type = "Identifier" -> node.target.name
            [] node.target.type = "MemberExpression" ->
                 RenderedChain(gs, node.target, FALSE, TRUE)
            [] OTHER -> Rendered(gs, node.target))
           \o " = " \o Rendered(gs, node.value)
    [] node.type = "AwaitExpression" -> "await " \o Rendered(gs, node.argument)
    [] OTHER -> ""

RECURSIVE RenderedStatement(_, _)

\* the statements of a block, one a line, each in the scopes its
\* predecessors leave
RECURSIVE RenderedLines(_, _)
RenderedLines(gs, stmts) ==
  IF Len(stmts) = 0 THEN <<>>
  ELSE <<RenderedStatement(gs, stmts[1])>>
         \o RenderedLines(generateStatement(gs, stmts[1]).gs, Tail(stmts))

RenderedBlock(gs, stmts) == "{\n" \o Join(RenderedLines(gs, stmts), "\n") \o "\n}"

RenderedValue(gs, stmt) ==
  IF TypedLiteralDecl(stmt) /\ ~hasExplicitTypeProp(stmt.value)
  THEN literalText(<<[key |-> "_type", text |-> "\"" \o stmt.typeAnnotation.name \o "\""]>>
                     \o RenderedFields(gs, stmt.value))
  ELSE Rendered(gs, stmt.value)

RenderedStatement(gs, stmt) ==
  CASE stmt.type = "VariableDeclaration" ->
         (IF stmt.constant THEN "const " ELSE "let ") \o stmt.identifier \o " = "
           \o RenderedValue(declare(gs, stmt.identifier), stmt) \o ";"
    [] stmt.type = "FunctionDeclaration" ->
         (IF stmt.async THEN "async " ELSE "") \o "function " \o stmt.name \o "("
           \o Join([i \in DOMAIN stmt.params |-> stmt.params[i].name], ", ") \o ") "
           \o RenderedBlock(pushFunction(declare(gs, stmt.name),
                                         {stmt.params[i].name : i \in DOMAIN stmt.params},
                                         stmt.async),
                            stmt.body)
    [] stmt.type = "ReturnStatement" ->
         IF stmt.value = NoNode THEN "return;"
         ELSE "return " \o Rendered(gs, stmt.value) \o ";"
    [] stmt.type = "IfStatement" ->
         "if (" \o Rendered(gs, stmt.condition) \o ") "
           \o RenderedBlock(gs, stmt.consequent) \o " "
           \o (IF stmt.alternate = NoAlternate THEN ""
               ELSE "else " \o RenderedBlock(
                                 generateStatements(gs, stmt.consequent, <<>>).gs,
                                 stmt.alternate))
    [] stmt.type = "ForStatement" ->
         "for " \o (IF stmt.async THEN "await " ELSE "") \o "(const " \o stmt.variable
           \o " of " \o Rendered(gs, stmt.iterable) \o ") "
           \o RenderedBlock(GenState(Append(gs.scopes, {stmt.variable}),
                                     gs.asyncContextStack),
                            stmt.body)
    [] stmt.type = "ExpressionStatement" -> Rendered(gs, stmt.expression) \o ";"
    [] OTHER -> ""

ErasedStatement(stmt) == stmt.type \in {"TypeDeclaration", "InterfaceDeclaration"}

\* the renderings of the statements that are no type or interface
\* declaration, in source order
RECURSIVE KeptLines(_, _)
KeptLines(gs, stmts) ==
  IF Len(stmts) = 0 THEN <<>>
  ELSE (IF ErasedStatement(stmts[1]) THEN <<>> ELSE <<RenderedStatement(gs, stmts[1])>>)
         \o KeptLines(generateStatement(gs, stmts[1]).gs, Tail(stmts))

\* C27: the emitted text is the renderings of the program's statements that
\* are not type or interface declarations, in source order, one per
\* statement, joined by newlines (the empty program emits the empty string),
\* and its only awaits are those written in the source and those inserted
\* for identifiers that no scope declares in an async context.
C27_OrderAndErasure ==
  pc = "generated" =>
    /\ output = Join(KeptLines(GenState(<<{}>>, <<TRUE>>), program.body), "\n")
    /\ program.body = <<>> => output = ""

\* C27 witness: the type declaration before `await p` was erased, and the
\* source's await and the one inserted for p are the awaits of the output
C27_Witness ==
  /\ pc = "generated"
  /\ Len(program.body) = 2
  /\ ErasedStatement(program.body[1])
  /\ program.body[2] = ExprStmt(AwaitP)
  /\ output = "await await p;"

C27_ForAwait ==
  /\ pc = "generated"
  /\ output = "for await (const x of await ps) {\nx;\n}"

----------------------------------------------------------------------------
(* The return types at their program points (specification SpecCheck).     *)

\* the checker as check(program) starts the first statement
ProgramStart == CheckerState(ContextTypes, EmptyMap, allowTopLevelAwait)

\* the element type a for loop gives its variable
ElementType(node, iterableType) ==
  IF node.async /\ iterableType.kind = "promise" /\ iterableType.resolveType.kind = "array"
  THEN iterableType.resolveType.elementType
  ELSE IF iterableType.kind = "array" THEN iterableType.elementType
  ELSE Unknown

\* the checker inside the body of the for loop node, entered from st
InsideLoop(st, node, it) ==
  [it.st EXCEPT !.sym = MapSet(it.st.sym, node.variable, ElementType(node, it.ty))]

RECURSIVE PointTypes(_, _)

\* the types of the return values under node, each inferred with the
\* bindings in force where the return statement stands
PointTypesOf(st, node) ==
  CASE node.type = "ReturnStatement" ->
         IF node.value = NoNode THEN <<>> ELSE <<inferExpression(st, node.value).ty>>
    [] node.type = "IfStatement" ->
         PointTypes(inferExpression(st, node.condition).st, node.consequent)
           \o (IF node.alternate = NoAlternate THEN <<>>
               ELSE PointTypes(
                      checkStatements(inferExpression(st, node.condition).st,
                                      node.consequent, Unknown).st,
                      node.alternate))
    [] node.type = "ForStatement" ->
         PointTypes(InsideLoop(st, node, inferExpression(st, node.iterable)), node.body)
    [] OTHER -> <<>>

PointTypes(st, stmts) ==
  IF Len(stmts) = 0 THEN <<>>
  ELSE PointTypesOf(st, stmts[1]) \o PointTypes(checkStatement(st, stmts[1]).st, Tail(stmts))

Combined(types) ==
  IF Len(types) = 0 THEN Unknown
  ELSE IF Len(types) = 1 THEN types[1] ELSE Union(types)

Returned == pc = "returned" /\ ~outcome.thrown

\* C28: the type inferReturnType collects for a return statement is the type
\* that statement's expression has at its own program point, with the
\* bindings in force there: a return inside a for body that mentions the
\* loop variable sees the element type, and a return that mentions a
\* variable sees the type bound before the return, not a binding made or
\* removed later.
C28_TypesAtProgramPoint == Returned => outcome.type = Combined(PointTypes(ProgramStart, body))

\* what inferReturnType does: every return value is inferred once more with
\* the bindings that check(program) has left
C28_TypesAtProgramEnd ==
  Returned => outcome.type = Combined(TypesOf(BeforeState, ReturnExprs(body)))

\* a return that no later statement and no closed scope touches has the type
\* of its program point
C28_ReturnOfBoundVariable ==
  /\ Returned
  /\ Len(body) = 2 /\ body[2] = Return(Id("x"))
  /\ outcome.type = TString
  /\ PointTypes(ProgramStart, body) = <<TString>>

----------------------------------------------------------------------------
(* The two stacks of the emitter (specification SpecEmit).                 *)

FreshStacks == GenState(<<{}>>, <<TRUE>>)

\* the generator as it was when the statement Last was entered
BeforeLast ==
  generateStatements(FreshStacks, SubSeq(program.body, 1, Len(emitted) - 1), <<>>).gs

RECURSIVE Entered(_, _)

\* the statements emitted in a block entered with gs, each with the
\* generator it is entered with
EnteredIn(gs, stmts) ==
  UNION {Entered(generateStatements(gs, SubSeq(stmts, 1, i - 1), <<>>).gs, stmts[i]) :
           i \in DOMAIN stmts}

\* the statement stmt and every statement nested in it
Entered(gs, stmt) ==
  {<<gs, stmt>>} \cup
    CASE stmt.type = "FunctionDeclaration" ->
           EnteredIn(pushFunction(declare(gs, stmt.name),
                                  {stmt.params[i].name : i \in DOMAIN stmt.params},
                                  stmt.async),
                     stmt.body)
      [] stmt.type = "IfStatement" ->
           EnteredIn(gs, stmt.consequent) \cup
             (IF stmt.alternate = NoAlternate THEN {}
              ELSE EnteredIn(generateStatements(gs, stmt.consequent, <<>>).gs,
                             stmt.alternate))
      [] stmt.type = "ForStatement" -> EnteredIn(pushScope(gs, stmt.variable), stmt.body)
      [] OTHER -> {}

Depths(gs) == <<Len(gs.scopes), Len(gs.asyncContextStack)>>

\* the statement entered with gs leaves the stacks as deep as it found
\* them, and neither is empty meanwhile
Balanced(gs, stmt) ==
  /\ Len(gs.scopes) >= 1
  /\ Len(gs.asyncContextStack) >= 1
  /\ Depths(generateStatement(gs, stmt).gs) = Depths(gs)
  /\ generateStatement(gs, stmt).gs.asyncContextStack = gs.asyncContextStack

----------------------------------------------------------------------------
(* Termination of tokenize (specification SpecLexFair): tokenize is one    *)
(* call that runs its loop until it ends, so a turn of the loop that can   *)
(* be taken is taken.                                                      *)

\* the sources: every piece, every two pieces, and every three of the pieces
\* that end a turn in an unusual way (the back-up, the string, the escape,
\* the comment, white space)
FairPieces == {<<"x">>, <<"&">>, <<" ">>, <<"\"">>, <<"\\">>, <<"/", "/">>, <<"\n">>}

FairSources ==
  LexPieces
    \cup {Flat(<<ab[1], ab[2]>>) : ab \in LexPieces \X LexPieces}
    \cup {Flat(<<abc[1], abc[2], abc[3]>>) : abc \in FairPieces \X FairPieces \X FairPieces}

InitLexFair ==
  /\ symbolTable = ContextTypes
  /\ customTypes = EmptyMap
  /\ currentFunctionIsAsync = FALSE
  /\ allowTopLevelAwait = TRUE
  /\ savedAsync = FALSE
  /\ pc = "lex"
  /\ body = <<>>
  /\ outcome = NoOutcome
  /\ before = [sym |-> ContextTypes, custom |-> EmptyMap, async |-> FALSE]
  /\ result = NoResult
  /\ source = NoSource
  /\ calls = 0
  /\ seen = EmptyMap
  /\ tyS = Unknown
  /\ tyT = Unknown
  /\ assignable = TRUE
  /\ EmitterConstructed
  /\ ParserConstructed
  /\ input \in FairSources
  /\ pos = 0
  /\ line = 1
  /\ column = 1
  /\ tokenStart = 0
  /\ tokens = <<>>
  /\ lexError = ""

SpecLexFair == InitLexFair /\ [][NextLex]_vars /\ WF_vars(NextLex)

\* a turn of the loop consumes at least one character, or throws
TurnProgress == LexTurn => (pos' > pos \/ pc' = "lexfailed")

\* tokenize has returned or thrown
LexEnded == pc \in {"tokenized", "lexfailed"}

\* C30: tokenize terminates on every finite input: each iteration of its
\* main loop either consumes at least one source character (pos strictly
\* increases, and is never more than one step past the end of the source)
\* or throws, so the lexer never loops on a character without progress,
\* the & back-up step included.
C30_Terminates ==
  /\ [][TurnProgress]_vars
  /\ [](pos <= Len(input) + 1)
  /\ <>LexEnded

\* C30 witness: after the token x, a lone & was advanced over and backed up
\* to, and tokenize threw there
C30_Witness ==
  /\ pc = "lexfailed"
  /\ input = <<"x", "&">>
  /\ pos = 1
  /\ Len(tokens) = 1

\* the escape at the end of an unterminated string leaves pos one step past
\* the end of the source
C30_PastTheEnd ==
  /\ pc = "lexfailed"
  /\ pos = Len(input) + 1
====
